---- MODULE Spec2Model ----
(***************************************************************************)
(* The Direct3D 11 live-video renderer of the demod3d11 sample:            *)
(* CD3D11Render (d3d11render.cpp / d3d11render.h) and the dialog that owns *)
(* it (demod3d11Dlg.cpp).                                                  *)
(*                                                                         *)
(* Two threads are modelled.  The control thread is the dialog's message   *)
(* loop: it runs OnSize -> Resize(), OnEventImage -> Render() and          *)
(* OnDestroy -> ~CD3D11Render, one handler at a time.  The render worker   *)
(* runs CD3D11Render::Loop.  Every access to a variable that both threads  *)
(* touch (m_resize, m_loop, m_evt, m_windowWidth, m_windowHeight) is a     *)
(* step of its own, so every interleaving of the accesses is explored.     *)
(*                                                                         *)
(* The initial state is the state in which Init() has returned true: the   *)
(* swapchain has been sized to the window, the event exists, unsignalled,  *)
(* and the worker thread has been created and is about to test m_loop.     *)
(*                                                                         *)
(* Further specifications over the same variables: FairSpec (scheduling    *)
(* fairness, for the liveness properties), StartSpec (StartDevice and the  *)
(* sub-steps of Init(), any of which may fail), RateSpec (OnTimer ->       *)
(* GetFrameRate against a millisecond clock), ViewSpec (the viewport       *)
(* computation of Resize(w, h) over image and window sizes), FormatSpec    *)
(* (cameras of every bit depth, mono and colour), SessionSpec (resizes,    *)
(* frames, frame-rate queries and the destruction together), PackSpec      *)
(* (resize requests at the ends of the register's range) and ReopenSpec    *)
(* (a new renderer after a resolution change or a re-opened camera).       *)
(***************************************************************************)
EXTENDS Integers, Sequences, FiniteSets, TLC

VARIABLES
    client,          \* client-area size <<w, h>> of the target window (GetClientRect)
    m_windowWidth,   \* CD3D11Render::m_windowWidth
    m_windowHeight,  \* CD3D11Render::m_windowHeight
    m_resize,        \* std::atomic<unsigned> m_resize, as <<high 16 bits, low 16 bits>>
    m_loop,          \* volatile bool m_loop
    m_evt,           \* the auto-reset event: "unset", "set" or "closed"
    m_thrd,          \* the worker thread object: "running" or "joined"
    m_totalFrame,    \* frames presented in the session
    m_nFrame,        \* frames presented since the last rate sample
    bufferSize,      \* size <<w, h>> of the swapchain's back buffers
    viewport,        \* the viewport <<x, y, w, h>> set by RSSetViewports
    device,          \* the COM objects (device, context, swapchain, texture): "alive" or "released"
    mapped,          \* TRUE while m_textureImage is mapped
    wpc,             \* the worker's position in Loop()
    val,             \* Loop's local val (NoRequest outside its block)
    hr,              \* Loop's local hr (Unset until the iteration assigns it)
    cpc,             \* the control thread's position
    lastReq,         \* history: the size of the latest request stored by Resize(), or None
    nReq,            \* history: requests stored since the worker last loaded the register
    nTaken,          \* history: the value nReq had at the worker's last load
    frameReady,      \* history: Render() has been called since the worker last began a pull attempt
    image,           \* <<m_imageWidth, m_imageHeight>>
    m_render,        \* Cdemod3d11Dlg::m_render: "null" or "held"
    camera,          \* the camera m_hcam: "stopped" (open), "started" (in pull mode) or "closed"
    initRet,         \* what Init() returned: "true" or "false" ("none" before StartDevice)
    failedStep,      \* history: the sub-step of Init() that failed, or "none"
    now,             \* history: milliseconds of steady_clock time since the run began
    tick,            \* what get_precise_tick() returns now, as <<high 16 bits, low 16 bits>>
    m_nTick,         \* CD3D11Render::m_nTick, as <<high 16 bits, low 16 bits>>
    call,            \* GetFrameRate's local tick in the latest call, with its time: <<now, tick>>, or None
    sample,          \* the latest call's <<return value, nFrame, nTime, nTotal>>, or None; the value is "running" until it returns
    lastCall,        \* history: <<now, return value>> of the call before the latest, or None
    winStart,        \* history: the time (now) of the call that last set m_nTick; 0 for the constructor
    sinceSample,     \* history: frames presented and counted since a GetFrameRate call that returned a value last read m_nFrame
    reg,             \* the worker's register holding m_nFrame during ++m_nFrame
    m_bitdepth,      \* CD3D11Render::m_bitdepth, the bit depth Toupcam_get_RawFormat reported
    m_bMono,         \* CD3D11Render::m_bMono
    texFormat,       \* texDesc.Format of m_textureImage as <<channels, bits per channel>>, or None
    shaderScale,     \* the SCALE macro of the pixel shader as <<whole part, 8 decimal places>>, or None
    frameCap,        \* the number of frames the camera delivers in the run
    pullBits,        \* the bits per pixel the worker requested in its latest pull; 0 before the first
    reported,        \* history: the sum of the frame counts GetFrameRate has returned
    dtorRet,         \* where the owner goes on when ~CD3D11Render returns: "close", "size" or "init"
    nThreads         \* history: worker threads started and not yet joined

\* the owner's variables
ownerVars == <<image, m_render, camera, initRet, failedStep>>

\* the clock and the variables of the frame-rate query
rateVars == <<now, tick, m_nTick, call, sample, lastCall, winStart>>

\* the renderer's members that are fixed for a session, and the run's frame supply
sessionVars == <<m_bitdepth, m_bMono, texFormat, shaderScale, frameCap>>

vars == <<client, m_windowWidth, m_windowHeight, m_resize, m_loop, m_evt, m_thrd,
          m_totalFrame, m_nFrame, bufferSize, viewport, device, mapped,
          wpc, val, hr, cpc, lastReq, nReq, nTaken, frameReady,
          ownerVars, rateVars, sinceSample, reg, sessionVars, pullBits, reported,
          dtorRet, nThreads>>

----------------------------------------------------------------------------
(* Bounds of the model *)

\* frames the camera delivers in a run (caps m_totalFrame and m_nFrame)
MaxFrames == 1

\* frames the camera delivers in a run in which the frame rate is queried
RateFrames == 2

\* nReq saturates here: "this many requests or more"
MaxCoalesce == 2

\* client-area sizes the window takes
WinSizes == { <<640, 480>>, <<800, 480>>, <<800, 600>> }

\* the image size the renderer was constructed with
ImageSize == <<1280, 960>>

None == <<>>

----------------------------------------------------------------------------
(* 32-bit unsigned values are kept as <<high half, low half>>, each half   *)
(* in 0..65535, and the bitwise operators work on the halves.              *)

Half == 2^16

\* 0x80000000 >> 16
FlagHigh == 32768

\* 0x7fff
DimMask == 32767

\* a | b and a & b, as functions so that their arguments are values
BitOr[a \in Nat, b \in Nat] ==
    IF a = 0 THEN b
    ELSE IF b = 0 THEN a
    ELSE (IF a % 2 = 1 \/ b % 2 = 1 THEN 1 ELSE 0) + 2 * BitOr[a \div 2, b \div 2]

BitAnd[a \in Nat, b \in Nat] ==
    IF a = 0 \/ b = 0 THEN 0
    ELSE (IF a % 2 = 1 /\ b % 2 = 1 THEN 1 ELSE 0) + 2 * BitAnd[a \div 2, b \div 2]

\* m_resize's value 0
NoRequest == <<0, 0>>

\* a packing that puts the height in the high half
PackSwapped(cx, cy) ==
    << BitOr[BitOr[FlagHigh, cy % Half], (cx \div Half) % Half], cx % Half >>

\* a packing that leaves the top bit clear
PackNoFlag(cx, cy) ==
    << BitOr[cx % Half, (cy \div Half) % Half], cy % Half >>

\* 0x80000000 | (cx << 16) | cy, for int cx, cy >= 0
Pack(cx, cy) ==
    << BitOr[BitOr[FlagHigh, cx % Half], (cy \div Half) % Half], cy % Half >>

\* val & 0x80000000
Pending(v) == BitAnd[v[1], FlagHigh] # 0

\* (val >> 16) & 0x7fff
UnpackWidth(v) == BitAnd[v[1], DimMask]

\* val & 0x7fff
UnpackHeight(v) == BitAnd[v[2], DimMask]

----------------------------------------------------------------------------
(* Single-precision arithmetic of Resize(int, int).  A positive float is   *)
(* <<m, e>>, standing for m * 2^e with 2^(F32Bits-1) <= m < 2^F32Bits;     *)
(* zero is <<0, 0>>.  Every operation rounds to nearest, ties to even.     *)
(* The operations are functions, so that their arguments are values.       *)

\* significand bits of a float
F32Bits == 24

Float == Nat \X Int

\* the number of bits of n
BitLen[n \in Nat] == IF n = 0 THEN 0 ELSE 1 + BitLen[n \div 2]

\* q rounded up when the dropped part rem (out of unit) is above the half, or is the half and q is odd
RoundEven[q \in Nat, rem \in Nat, unit \in Nat] ==
    IF 2 * rem > unit \/ (2 * rem = unit /\ q % 2 = 1) THEN q + 1 ELSE q

\* <<q, e>> renormalised after rounding carried q up to 2^F32Bits
Renorm[q \in Nat, e \in Int] ==
    IF q = 2^F32Bits THEN << 2^(F32Bits - 1), e + 1 >> ELSE << q, e >>

\* long division: the next n bits of the quotient rem/den, for rem < den; <<bits, rem>>
DivBits[rem \in Nat, den \in Nat, n \in Nat] ==
    << (rem * 2^n) \div den, (rem * 2^n) % den >>

\* p / (float)q for int 0 <= p < 2^15, 0 < q < 2^15
F32Div[p \in Nat, q \in Nat] ==
    IF p = 0 THEN << 0, 0 >>
    ELSE LET e0 == BitLen[p] - BitLen[q]
             pn == IF e0 < 0 THEN p * 2^(-e0) ELSE p
             qn == IF e0 > 0 THEN q * 2^e0 ELSE q
             \* pn and qn have the same bit length, so pn/qn is in (1/2, 2)
             e1 == IF pn >= qn THEN e0 ELSE e0 - 1
             p1 == IF pn >= qn THEN pn ELSE 2 * pn
             \* the quotient p1/qn is 1.xxx: its F32Bits - 1 fraction bits, in two runs
             n1 == F32Bits \div 2
             n2 == F32Bits - 1 - n1
             d1 == DivBits[p1 - qn, qn, n1]
             d2 == DivBits[d1[2], qn, n2]
             m  == (2^n1 + d1[1]) * 2^n2 + d2[1]
         IN  Renorm[RoundEven[m, d2[2], qn], e1 - (F32Bits - 1)]

\* __min(a, b) on floats >= 0
F32Min[a \in Float, b \in Float] ==
    IF a[1] = 0 THEN a
    ELSE IF b[1] = 0 THEN b
    ELSE IF a[2] < b[2] \/ (a[2] = b[2] /\ a[1] < b[1]) THEN a ELSE b

\* n * f for int 0 < n < 2^15 converted to float, f a float
F32MulInt[n \in Nat, f \in Float] ==
    IF f[1] = 0 THEN << 0, 0 >>
    ELSE LET lowBits == F32Bits \div 2
             low  == 2^lowBits
             A    == n * (f[1] \div low)
             B    == n * (f[1] % low)
             H    == A + (B \div low)
             L    == B % low
             \* the exact product is H * low + L; s of its bits are dropped
             s    == BitLen[H] + lowBits - F32Bits
             q    == IF s <= lowBits THEN H * 2^(lowBits - s) + (L \div 2^s)
                     ELSE H \div 2^(s - lowBits)
             rem  == IF s <= lowBits THEN L % 2^s
                     ELSE (H % 2^(s - lowBits)) * low + L
         IN  Renorm[RoundEven[q, rem, 2^s], f[2] + s]

\* static_cast<int>(f) for a float f >= 0 below 2^31
F32ToInt[f \in Float] ==
    IF f[2] >= 0 THEN f[1] * 2^f[2]
    ELSE IF -f[2] >= F32Bits THEN 0
    ELSE f[1] \div 2^(-f[2])

\* C's int division a / b, b > 0: the quotient is truncated towards zero
CDiv(a, b) == IF a >= 0 THEN a \div b ELSE -((-a) \div b)

\* a viewport that is put in the window's top left corner
ViewportTopLeft(iw, ih, w, h) ==
    LET scale == F32Min[F32Div[w, iw], F32Div[h, ih]]
        vpW   == F32ToInt[F32MulInt[iw, scale]]
        vpH   == F32ToInt[F32MulInt[ih, scale]]
    IN  << 0, 0, vpW, vpH >>

\* a viewport that fills the window
ViewportStretched(iw, ih, w, h) == << 0, 0, w, h >>

\* the viewport <<x, y, w, h>> Resize(int, int) sets for an image iw x ih and a
\* window w x h: scale = __min(w / (float)iw, h / (float)ih), vpW =
\* static_cast<int>(iw * scale), vpH = static_cast<int>(ih * scale), vpX = (w - vpW) / 2,
\* vpY = (h - vpH) / 2
ViewportOf(iw, ih, w, h) ==
    LET scale == F32Min[F32Div[w, iw], F32Div[h, ih]]
        vpW   == F32ToInt[F32MulInt[iw, scale]]
        vpH   == F32ToInt[F32MulInt[ih, scale]]
    IN  << CDiv(w - vpW, 2), CDiv(h - vpH, 2), vpW, vpH >>

\* the viewport Resize(int, int) sets for a window w x h
Viewport(w, h) == ViewportOf(image[1], image[2], w, h)

----------------------------------------------------------------------------
(* The texture format, the bits per pixel of a pull and the shader's SCALE, *)
(* each derived from m_bMono and m_bitdepth.                                *)

\* texDesc.Format as <<channels, bits per channel>>: R8_UNORM or R16_UNORM
\* for mono, R8G8B8A8_UNORM or R16G16B16A16_UNORM for colour
TexFormat(mono, b) == << IF mono THEN 1 ELSE 4, IF b > 8 THEN 16 ELSE 8 >>

\* a pull that asks for colour pixels whatever the camera is
PullBitsColour(mono, b) == IF b > 8 THEN 64 ELSE 32

\* the bits argument of Toupcam_PullImageWithRowPitch:
\* m_bMono ? ((m_bitdepth > 8) ? 16 : 8) : ((m_bitdepth > 8) ? 64 : 32)
PullBits(mono, b) ==
    IF mono THEN (IF b > 8 THEN 16 ELSE 8) ELSE (IF b > 8 THEN 64 ELSE 32)

\* the decimal places "%.8f" prints come in two runs of this many
DigitRun == 10000

\* sprintf("%.8f", n / d) for 0 < n < 2^16 and 0 < d < 2^17, d odd, as <<whole
\* part, the 8 decimal places>>: long division, rounded to nearest on the
\* part that is dropped (no tie arises for an odd d)
Fixed8(n, d) ==
    LET r0 == n % d
        q1 == (r0 * DigitRun) \div d
        r1 == (r0 * DigitRun) % d
        q2 == (r1 * DigitRun) \div d
        r2 == (r1 * DigitRun) % d
        f  == q1 * DigitRun + q2 + (IF 2 * r2 > d THEN 1 ELSE 0)
    IN  << (n \div d) + (f \div (DigitRun * DigitRun)), f % (DigitRun * DigitRun) >>

\* 65535.0
FullScale == 65535

\* a scale that is 1 for 16 bits only, and is computed for any wider depth
ScaleOneAt16(b) ==
    IF b <= 8 \/ b = 16 THEN << 1, 0 >> ELSE Fixed8(FullScale, 2^b - 1)

\* CreateShaders: if ((m_bitdepth <= 8) || (m_bitdepth >= 16)) strcpy(scale, "1.0");
\* else sprintf(scale, "%.8f", 65535.0 / double((1 << m_bitdepth) - 1));
Scale(b) ==
    IF b <= 8 \/ b >= 16 THEN << 1, 0 >> ELSE Fixed8(FullScale, 2^b - 1)

----------------------------------------------------------------------------
(* The state after the constructor and a successful Init() *)

S_OK == "S_OK"
E_FAIL == "E_FAIL"

\* the value of a local variable outside its scope
Unset == "unset"

\* nReq + 1, saturating
Bump(n) == IF n < MaxCoalesce THEN n + 1 ELSE n

Init ==
    /\ image = ImageSize
    /\ client \in WinSizes
    /\ m_windowWidth = client[1]
    /\ m_windowHeight = client[2]
    /\ m_resize = NoRequest
    /\ m_loop = TRUE
    /\ m_evt = "unset"
    /\ m_thrd = "running"
    /\ m_totalFrame = 0
    /\ m_nFrame = 0
    /\ bufferSize = client
    /\ viewport = Viewport(client[1], client[2])
    /\ device = "alive"
    /\ mapped = FALSE
    /\ wpc = "test"
    /\ val = NoRequest
    /\ hr = Unset
    /\ cpc = "idle"
    /\ lastReq = None
    /\ nReq = 0
    /\ nTaken = 0
    /\ frameReady = FALSE
    /\ m_render = "held"
    /\ camera = "started"
    /\ initRet = "true"
    /\ failedStep = "none"
    /\ now = 0
    /\ tick = <<0, 0>>
    /\ m_nTick = <<0, 0>>
    /\ call = None
    /\ sample = None
    /\ lastCall = None
    /\ winStart = 0
    /\ sinceSample = 0
    /\ reg = 0
    /\ m_bitdepth = 8
    /\ m_bMono = FALSE
    /\ texFormat = TexFormat(m_bMono, m_bitdepth)
    /\ shaderScale = Scale(m_bitdepth)
    /\ frameCap = MaxFrames
    /\ pullBits = 0
    /\ reported = 0
    /\ dtorRet = "close"
    /\ nThreads = IF m_thrd = "running" THEN 1 ELSE 0

----------------------------------------------------------------------------
(* The event object.  CreateEvent(NULL, FALSE, FALSE, NULL) makes an       *)
(* auto-reset event: SetEvent leaves it signalled until one wait is        *)
(* released, and releasing a wait resets it.                               *)

\* SetEvent(m_evt): the value of the event afterwards
SetEvent(e) == IF e \in {"closed", "null"} THEN e ELSE "set"

\* a manual-reset event stays signalled when a wait is released
WaitManualReset ==
    /\ wpc = "wait"
    /\ m_evt = "set"
    /\ hr' = Unset
    /\ wpc' = "test"
    /\ UNCHANGED <<client, m_windowWidth, m_windowHeight, m_resize, m_loop, m_evt,
                   m_thrd, m_totalFrame, m_nFrame, bufferSize, viewport, device,
                   mapped, val, cpc, lastReq, nReq, nTaken, frameReady>>
    /\ UNCHANGED <<ownerVars, rateVars, sinceSample, reg>>
    /\ UNCHANGED <<sessionVars, pullBits, reported, dtorRet, nThreads>>

\* WaitForSingleObject(m_evt, INFINITE); continue; (the continue ends the scope of hr)
LoopWait ==
    /\ wpc = "wait"
    /\ m_evt = "set"
    /\ m_evt' = "unset"
    /\ hr' = Unset
    /\ wpc' = "test"
    /\ UNCHANGED <<client, m_windowWidth, m_windowHeight, m_resize, m_loop,
                   m_thrd, m_totalFrame, m_nFrame, bufferSize, viewport, device,
                   mapped, val, cpc, lastReq, nReq, nTaken, frameReady>>
    /\ UNCHANGED <<ownerVars, rateVars, sinceSample, reg>>
    /\ UNCHANGED <<sessionVars, pullBits, reported, dtorRet, nThreads>>

----------------------------------------------------------------------------
(* The render worker: CD3D11Render::Loop *)

\* a loop that goes round whatever the flag is
LoopForever ==
    /\ wpc = "test"
    /\ wpc' = "load"
    /\ hr' = Unset
    /\ nTaken' = 0
    /\ UNCHANGED <<client, m_windowWidth, m_windowHeight, m_resize, m_loop, m_evt,
                   m_thrd, m_totalFrame, m_nFrame, bufferSize, viewport, device,
                   mapped, val, cpc, lastReq, nReq, frameReady>>
    /\ UNCHANGED <<ownerVars, rateVars, sinceSample, reg>>
    /\ UNCHANGED <<sessionVars, pullBits, reported, dtorRet, nThreads>>

\* while (m_loop)
LoopTest ==
    /\ wpc = "test"
    /\ wpc' = IF m_loop THEN "load" ELSE "done"
    /\ hr' = Unset
    /\ nTaken' = 0
    /\ UNCHANGED <<client, m_windowWidth, m_windowHeight, m_resize, m_loop, m_evt,
                   m_thrd, m_totalFrame, m_nFrame, bufferSize, viewport, device,
                   mapped, val, cpc, lastReq, nReq, frameReady>>
    /\ UNCHANGED <<ownerVars, rateVars, sinceSample, reg>>
    /\ UNCHANGED <<sessionVars, pullBits, reported, dtorRet, nThreads>>

\* a loop that reads the register and goes on to pull whatever it holds
LoopLoadIgnoresFlag ==
    /\ wpc = "load"
    /\ val' = m_resize
    /\ wpc' = "map"
    /\ nReq' = 0
    /\ nTaken' = IF Pending(m_resize) THEN nReq ELSE 0
    /\ UNCHANGED <<client, m_windowWidth, m_windowHeight, m_resize, m_loop, m_evt,
                   m_thrd, m_totalFrame, m_nFrame, bufferSize, viewport, device,
                   mapped, hr, cpc, lastReq, frameReady>>
    /\ UNCHANGED <<ownerVars, rateVars, sinceSample, reg>>
    /\ UNCHANGED <<sessionVars, pullBits, reported, dtorRet, nThreads>>

\* unsigned val = m_resize.load(); if (val & 0x80000000)
LoopLoad ==
    /\ wpc = "load"
    /\ val' = m_resize
    /\ wpc' = IF Pending(m_resize) THEN "clear" ELSE "map"
    /\ nReq' = 0
    /\ nTaken' = IF Pending(m_resize) THEN nReq ELSE 0
    /\ UNCHANGED <<client, m_windowWidth, m_windowHeight, m_resize, m_loop, m_evt,
                   m_thrd, m_totalFrame, m_nFrame, bufferSize, viewport, device,
                   mapped, hr, cpc, lastReq, frameReady>>
    /\ UNCHANGED <<ownerVars, rateVars, sinceSample, reg>>
    /\ UNCHANGED <<sessionVars, pullBits, reported, dtorRet, nThreads>>

\* a loop that leaves the request in the register when it takes it
LoopClearKeepsFlag ==
    /\ wpc = "clear"
    /\ wpc' = "resizeW"
    /\ UNCHANGED <<client, m_windowWidth, m_windowHeight, m_resize, m_loop, m_evt,
                   m_thrd, m_totalFrame, m_nFrame, bufferSize, viewport, device,
                   mapped, val, hr, cpc, lastReq, nReq, nTaken, frameReady>>
    /\ UNCHANGED <<ownerVars, rateVars, sinceSample, reg>>
    /\ UNCHANGED <<sessionVars, pullBits, reported, dtorRet, nThreads>>

\* m_resize.store(0);
LoopClear ==
    /\ wpc = "clear"
    /\ m_resize' = NoRequest
    /\ wpc' = "resizeW"
    /\ UNCHANGED <<client, m_windowWidth, m_windowHeight, m_loop, m_evt,
                   m_thrd, m_totalFrame, m_nFrame, bufferSize, viewport, device,
                   mapped, val, hr, cpc, lastReq, nReq, nTaken, frameReady>>
    /\ UNCHANGED <<ownerVars, rateVars, sinceSample, reg>>
    /\ UNCHANGED <<sessionVars, pullBits, reported, dtorRet, nThreads>>

\* Resize((val >> 16) & 0x7fff, val & 0x7fff): m_windowWidth = windowWidth;
ResizeSetWidth ==
    /\ wpc = "resizeW"
    /\ m_windowWidth' = UnpackWidth(val)
    /\ wpc' = "resizeH"
    /\ UNCHANGED <<client, m_windowHeight, m_resize, m_loop, m_evt,
                   m_thrd, m_totalFrame, m_nFrame, bufferSize, viewport, device,
                   mapped, val, hr, cpc, lastReq, nReq, nTaken, frameReady>>
    /\ UNCHANGED <<ownerVars, rateVars, sinceSample, reg>>
    /\ UNCHANGED <<sessionVars, pullBits, reported, dtorRet, nThreads>>

\* a loop that goes on to pull and draw after the resize, without the continue
ResizeFallsThrough ==
    /\ wpc = "resizeH"
    /\ m_windowHeight' = UnpackHeight(val)
    /\ val' = NoRequest
    /\ bufferSize' = << m_windowWidth, UnpackHeight(val) >>
    /\ viewport' = Viewport(m_windowWidth, UnpackHeight(val))
    /\ wpc' = "map"
    /\ UNCHANGED <<client, m_windowWidth, m_resize, m_loop, m_evt,
                   m_thrd, m_totalFrame, m_nFrame, device,
                   mapped, hr, cpc, lastReq, nReq, nTaken, frameReady>>
    /\ UNCHANGED <<ownerVars, rateVars, sinceSample, reg>>
    /\ UNCHANGED <<sessionVars, pullBits, reported, dtorRet, nThreads>>

\* the rest of Resize(int, int): m_windowHeight = windowHeight; OMSetRenderTargets;
\* GetDesc; ResizeBuffers; the viewport; and Loop's continue.  GetDesc or
\* ResizeBuffers may fail, and then the buffers and the viewport are left as they were.
ResizeSetHeight ==
    /\ wpc = "resizeH"
    /\ m_windowHeight' = UnpackHeight(val)
    /\ val' = NoRequest
    /\ \/ /\ bufferSize' = << m_windowWidth, UnpackHeight(val) >>
          /\ viewport' = Viewport(m_windowWidth, UnpackHeight(val))
       \/ UNCHANGED <<bufferSize, viewport>>
    /\ wpc' = "test"
    /\ UNCHANGED <<client, m_windowWidth, m_resize, m_loop, m_evt,
                   m_thrd, m_totalFrame, m_nFrame, device,
                   mapped, hr, cpc, lastReq, nReq, nTaken, frameReady>>
    /\ UNCHANGED <<ownerVars, rateVars, sinceSample, reg>>
    /\ UNCHANGED <<sessionVars, pullBits, reported, dtorRet, nThreads>>

\* hr = m_context->Map(m_textureImage, ...); a failed Map goes to the wait
LoopMap ==
    /\ wpc = "map"
    /\ frameReady' = FALSE
    /\ \/ /\ hr' = S_OK
          /\ mapped' = TRUE
          /\ wpc' = "pull"
       \/ /\ hr' = E_FAIL
          /\ mapped' = FALSE
          /\ wpc' = "wait"
    /\ UNCHANGED <<client, m_windowWidth, m_windowHeight, m_resize, m_loop, m_evt,
                   m_thrd, m_totalFrame, m_nFrame, bufferSize, viewport, device,
                   val, cpc, lastReq, nReq, nTaken>>
    /\ UNCHANGED <<ownerVars, rateVars, sinceSample, reg>>
    /\ UNCHANGED <<sessionVars, pullBits, reported, dtorRet, nThreads>>

\* hr = Toupcam_PullImageWithRowPitch(...): the camera delivers a frame or fails
LoopPull ==
    /\ wpc = "pull"
    /\ \/ /\ m_totalFrame < frameCap
          /\ hr' = S_OK
       \/ hr' = E_FAIL
    /\ pullBits' = PullBits(m_bMono, m_bitdepth)
    /\ wpc' = "unmap"
    /\ UNCHANGED <<client, m_windowWidth, m_windowHeight, m_resize, m_loop, m_evt,
                   m_thrd, m_totalFrame, m_nFrame, bufferSize, viewport, device,
                   mapped, val, cpc, lastReq, nReq, nTaken, frameReady>>
    /\ UNCHANGED <<ownerVars, rateVars, sinceSample, reg>>
    /\ UNCHANGED <<sessionVars, reported, dtorRet, nThreads>>

\* a loop that leaves the texture mapped when the pull has failed
UnmapOnSuccessOnly ==
    /\ wpc = "unmap"
    /\ mapped' = (hr = E_FAIL)
    /\ wpc' = IF hr = E_FAIL THEN "wait" ELSE "rtv"
    /\ UNCHANGED <<client, m_windowWidth, m_windowHeight, m_resize, m_loop, m_evt,
                   m_thrd, m_totalFrame, m_nFrame, bufferSize, viewport, device,
                   val, hr, cpc, lastReq, nReq, nTaken, frameReady>>
    /\ UNCHANGED <<ownerVars, rateVars, sinceSample, reg>>
    /\ UNCHANGED <<sessionVars, pullBits, reported, dtorRet, nThreads>>

\* a loop that goes on to draw whether or not the pull succeeded
UnmapThenDraw ==
    /\ wpc = "unmap"
    /\ mapped' = FALSE
    /\ wpc' = "rtv"
    /\ UNCHANGED <<client, m_windowWidth, m_windowHeight, m_resize, m_loop, m_evt,
                   m_thrd, m_totalFrame, m_nFrame, bufferSize, viewport, device,
                   val, hr, cpc, lastReq, nReq, nTaken, frameReady>>
    /\ UNCHANGED <<ownerVars, rateVars, sinceSample, reg>>
    /\ UNCHANGED <<sessionVars, pullBits, reported, dtorRet, nThreads>>

\* m_context->Unmap(m_textureImage, 0); if (FAILED(hr)) wait, else go on to draw
LoopUnmap ==
    /\ wpc = "unmap"
    /\ mapped' = FALSE
    /\ wpc' = IF hr = E_FAIL THEN "wait" ELSE "rtv"
    /\ UNCHANGED <<client, m_windowWidth, m_windowHeight, m_resize, m_loop, m_evt,
                   m_thrd, m_totalFrame, m_nFrame, bufferSize, viewport, device,
                   val, hr, cpc, lastReq, nReq, nTaken, frameReady>>
    /\ UNCHANGED <<ownerVars, rateVars, sinceSample, reg>>
    /\ UNCHANGED <<sessionVars, pullBits, reported, dtorRet, nThreads>>

\* if (SetupRtv()): GetBuffer and CreateRenderTargetView succeed, or one fails
LoopSetupRtv ==
    /\ wpc = "rtv"
    /\ wpc' \in {"draw", "test"}
    /\ UNCHANGED <<client, m_windowWidth, m_windowHeight, m_resize, m_loop, m_evt,
                   m_thrd, m_totalFrame, m_nFrame, bufferSize, viewport, device,
                   mapped, val, hr, cpc, lastReq, nReq, nTaken, frameReady>>
    /\ UNCHANGED <<ownerVars, rateVars, sinceSample, reg>>
    /\ UNCHANGED <<sessionVars, pullBits, reported, dtorRet, nThreads>>

\* PSSetShaderResources; Draw(4, 0);
LoopDraw ==
    /\ wpc = "draw"
    /\ wpc' = "present"
    /\ UNCHANGED <<client, m_windowWidth, m_windowHeight, m_resize, m_loop, m_evt,
                   m_thrd, m_totalFrame, m_nFrame, bufferSize, viewport, device,
                   mapped, val, hr, cpc, lastReq, nReq, nTaken, frameReady>>
    /\ UNCHANGED <<ownerVars, rateVars, sinceSample, reg>>
    /\ UNCHANGED <<sessionVars, pullBits, reported, dtorRet, nThreads>>

\* a loop that blocks on the event after every present
PresentThenWait ==
    /\ wpc = "present"
    /\ \/ /\ hr' = S_OK
          /\ m_totalFrame' = m_totalFrame + 1
          /\ m_nFrame' = m_nFrame + 1
          /\ sinceSample' = sinceSample + 1
       \/ /\ hr' = E_FAIL
          /\ UNCHANGED <<m_totalFrame, m_nFrame, sinceSample>>
    /\ wpc' = "wait"
    /\ UNCHANGED <<client, m_windowWidth, m_windowHeight, m_resize, m_loop, m_evt,
                   m_thrd, bufferSize, viewport, device,
                   mapped, val, cpc, lastReq, nReq, nTaken, frameReady>>
    /\ UNCHANGED <<ownerVars, rateVars, reg>>
    /\ UNCHANGED <<sessionVars, pullBits, reported, dtorRet, nThreads>>

\* a loop that counts the frame whether or not Present succeeded
PresentCountsFailure ==
    /\ wpc = "present"
    /\ hr' \in {S_OK, E_FAIL}
    /\ wpc' = "countT"
    /\ UNCHANGED <<client, m_windowWidth, m_windowHeight, m_resize, m_loop, m_evt,
                   m_thrd, m_totalFrame, m_nFrame, bufferSize, viewport, device,
                   mapped, val, cpc, lastReq, nReq, nTaken, frameReady>>
    /\ UNCHANGED <<ownerVars, rateVars, sinceSample, reg>>
    /\ UNCHANGED <<sessionVars, pullBits, reported, dtorRet, nThreads>>

\* hr = m_swapChain->Present(1, 0); if (SUCCEEDED(hr)) go on to count the frame
LoopPresent ==
    /\ wpc = "present"
    /\ \/ /\ hr' = S_OK
          /\ wpc' = "countT"
       \/ /\ hr' = E_FAIL
          /\ wpc' = "test"
    /\ UNCHANGED <<client, m_windowWidth, m_windowHeight, m_resize, m_loop, m_evt,
                   m_thrd, m_totalFrame, m_nFrame, bufferSize, viewport, device,
                   mapped, val, cpc, lastReq, nReq, nTaken, frameReady>>
    /\ UNCHANGED <<ownerVars, rateVars, sinceSample, reg>>
    /\ UNCHANGED <<sessionVars, pullBits, reported, dtorRet, nThreads>>

\* ++m_totalFrame;
LoopCountTotal ==
    /\ wpc = "countT"
    /\ m_totalFrame' = m_totalFrame + 1
    /\ wpc' = "countR"
    /\ UNCHANGED <<client, m_windowWidth, m_windowHeight, m_resize, m_loop, m_evt,
                   m_thrd, m_nFrame, bufferSize, viewport, device,
                   mapped, val, hr, cpc, lastReq, nReq, nTaken, frameReady>>
    /\ UNCHANGED <<ownerVars, rateVars, sinceSample, reg>>
    /\ UNCHANGED <<sessionVars, pullBits, reported, dtorRet, nThreads>>

\* ++m_nFrame: the worker reads the counter, which is no atomic
LoopCountRead ==
    /\ wpc = "countR"
    /\ reg' = m_nFrame
    /\ wpc' = "countW"
    /\ UNCHANGED <<client, m_windowWidth, m_windowHeight, m_resize, m_loop, m_evt,
                   m_thrd, m_totalFrame, m_nFrame, bufferSize, viewport, device,
                   mapped, val, hr, cpc, lastReq, nReq, nTaken, frameReady>>
    /\ UNCHANGED <<ownerVars, rateVars, sinceSample>>
    /\ UNCHANGED <<sessionVars, pullBits, reported, dtorRet, nThreads>>

\* ++m_nFrame: the worker writes the value it read, plus one; the iteration ends
LoopCountWrite ==
    /\ wpc = "countW"
    /\ m_nFrame' = reg + 1
    /\ reg' = 0
    /\ sinceSample' = sinceSample + 1
    /\ wpc' = "test"
    /\ UNCHANGED <<client, m_windowWidth, m_windowHeight, m_resize, m_loop, m_evt,
                   m_thrd, m_totalFrame, bufferSize, viewport, device,
                   mapped, val, hr, cpc, lastReq, nReq, nTaken, frameReady>>
    /\ UNCHANGED <<ownerVars, rateVars>>
    /\ UNCHANGED <<sessionVars, pullBits, reported, dtorRet, nThreads>>

Worker ==
    \/ LoopTest
    \/ LoopLoad
    \/ LoopClear
    \/ ResizeSetWidth
    \/ ResizeSetHeight
    \/ LoopMap
    \/ LoopPull
    \/ LoopUnmap
    \/ LoopWait
    \/ LoopSetupRtv
    \/ LoopDraw
    \/ LoopPresent
    \/ LoopCountTotal
    \/ LoopCountRead
    \/ LoopCountWrite

----------------------------------------------------------------------------
(* The control thread: the dialog's handlers and the calls they make *)

\* Cdemod3d11Dlg::OnSize -> CD3D11Render::Resize(): the window has taken the
\* client-area size s; GetClientRect and the test of m_windowWidth
OnSize(s) ==
    /\ cpc = "idle"
    /\ m_render = "held"
    /\ client' = s
    /\ cpc' = IF m_windowWidth # s[1] THEN "store" ELSE "readH"
    /\ UNCHANGED <<m_windowWidth, m_windowHeight, m_resize, m_loop, m_evt,
                   m_thrd, m_totalFrame, m_nFrame, bufferSize, viewport, device,
                   mapped, wpc, val, hr, lastReq, nReq, nTaken, frameReady>>
    /\ UNCHANGED <<ownerVars, rateVars, sinceSample, reg>>
    /\ UNCHANGED <<sessionVars, pullBits, reported, dtorRet, nThreads>>

\* Resize(): || (m_windowHeight != rc.bottom - rc.top)
ResizeReadHeight ==
    /\ cpc = "readH"
    /\ cpc' = IF m_windowHeight # client[2] THEN "store" ELSE "idle"
    /\ UNCHANGED <<client, m_windowWidth, m_windowHeight, m_resize, m_loop, m_evt,
                   m_thrd, m_totalFrame, m_nFrame, bufferSize, viewport, device,
                   mapped, wpc, val, hr, lastReq, nReq, nTaken, frameReady>>
    /\ UNCHANGED <<ownerVars, rateVars, sinceSample, reg>>
    /\ UNCHANGED <<sessionVars, pullBits, reported, dtorRet, nThreads>>

\* a Resize() that applies the new size itself, on the control thread
ResizeStoreAndApply ==
    /\ cpc = "store"
    /\ m_windowWidth' = client[1]
    /\ m_windowHeight' = client[2]
    /\ bufferSize' = client
    /\ viewport' = Viewport(client[1], client[2])
    /\ lastReq' = client
    /\ cpc' = "signal"
    /\ UNCHANGED <<client, m_resize, m_loop, m_evt, m_thrd, m_totalFrame, m_nFrame,
                   device, mapped, wpc, val, hr, nReq, nTaken, frameReady>>
    /\ UNCHANGED <<ownerVars, rateVars, sinceSample, reg>>
    /\ UNCHANGED <<sessionVars, pullBits, reported, dtorRet, nThreads>>

\* Resize(): m_resize.store(0x80000000 | (cx << 16) | cy);
ResizeStore ==
    /\ cpc = "store"
    /\ m_resize' = Pack(client[1], client[2])
    /\ lastReq' = client
    /\ nReq' = Bump(nReq)
    /\ cpc' = "signal"
    /\ UNCHANGED <<client, m_windowWidth, m_windowHeight, m_loop, m_evt,
                   m_thrd, m_totalFrame, m_nFrame, bufferSize, viewport, device,
                   mapped, wpc, val, hr, nTaken, frameReady>>
    /\ UNCHANGED <<ownerVars, rateVars, sinceSample, reg>>
    /\ UNCHANGED <<sessionVars, pullBits, reported, dtorRet, nThreads>>

\* Resize(): SetEvent(m_evt);
ResizeSignal ==
    /\ cpc = "signal"
    /\ m_evt' = SetEvent(m_evt)
    /\ cpc' = "idle"
    /\ UNCHANGED <<client, m_windowWidth, m_windowHeight, m_resize, m_loop,
                   m_thrd, m_totalFrame, m_nFrame, bufferSize, viewport, device,
                   mapped, wpc, val, hr, lastReq, nReq, nTaken, frameReady>>
    /\ UNCHANGED <<ownerVars, rateVars, sinceSample, reg>>
    /\ UNCHANGED <<sessionVars, pullBits, reported, dtorRet, nThreads>>

\* a Render() that does not signal the event
RenderNoSignal ==
    /\ cpc = "idle"
    /\ m_render = "held"
    /\ frameReady' = TRUE
    /\ UNCHANGED <<client, m_windowWidth, m_windowHeight, m_resize, m_loop, m_evt,
                   m_thrd, m_totalFrame, m_nFrame, bufferSize, viewport, device,
                   mapped, wpc, val, hr, cpc, lastReq, nReq, nTaken>>
    /\ UNCHANGED <<ownerVars, rateVars, sinceSample, reg>>
    /\ UNCHANGED <<sessionVars, pullBits, reported, dtorRet, nThreads>>

\* Cdemod3d11Dlg::OnEventImage -> CD3D11Render::Render(): SetEvent(m_evt);
Render ==
    /\ cpc = "idle"
    /\ m_render = "held"
    /\ m_evt' = SetEvent(m_evt)
    /\ frameReady' = TRUE
    /\ UNCHANGED <<client, m_windowWidth, m_windowHeight, m_resize, m_loop,
                   m_thrd, m_totalFrame, m_nFrame, bufferSize, viewport, device,
                   mapped, wpc, val, hr, cpc, lastReq, nReq, nTaken>>
    /\ UNCHANGED <<ownerVars, rateVars, sinceSample, reg>>
    /\ UNCHANGED <<sessionVars, pullBits, reported, dtorRet, nThreads>>

\* Cdemod3d11Dlg::OnDestroy -> m_render.reset() -> ~CD3D11Render:
\* if (m_thrd) { m_loop = false; ...
DtorStop ==
    /\ cpc = "idle"
    /\ m_render = "held"
    /\ m_loop' = IF m_thrd = "null" THEN m_loop ELSE FALSE
    /\ cpc' = IF m_thrd = "null" THEN "dtorRelease" ELSE "dtorSignal"
    /\ UNCHANGED <<client, m_windowWidth, m_windowHeight, m_resize, m_evt,
                   m_thrd, m_totalFrame, m_nFrame, bufferSize, viewport, device,
                   mapped, wpc, val, hr, lastReq, nReq, nTaken, frameReady>>
    /\ UNCHANGED <<ownerVars, rateVars, sinceSample, reg>>
    /\ dtorRet' = "close"
    /\ UNCHANGED <<sessionVars, pullBits, reported, nThreads>>

\* a destructor that does not signal the event
DtorNoSignal ==
    /\ cpc = "dtorSignal"
    /\ cpc' = "dtorJoin"
    /\ UNCHANGED <<client, m_windowWidth, m_windowHeight, m_resize, m_loop, m_evt,
                   m_thrd, m_totalFrame, m_nFrame, bufferSize, viewport, device,
                   mapped, wpc, val, hr, lastReq, nReq, nTaken, frameReady>>
    /\ UNCHANGED <<ownerVars, rateVars, sinceSample, reg>>
    /\ UNCHANGED <<sessionVars, pullBits, reported, dtorRet, nThreads>>

\* ~CD3D11Render: SetEvent(m_evt);
DtorSignal ==
    /\ cpc = "dtorSignal"
    /\ m_evt' = SetEvent(m_evt)
    /\ cpc' = "dtorJoin"
    /\ UNCHANGED <<client, m_windowWidth, m_windowHeight, m_resize, m_loop,
                   m_thrd, m_totalFrame, m_nFrame, bufferSize, viewport, device,
                   mapped, wpc, val, hr, lastReq, nReq, nTaken, frameReady>>
    /\ UNCHANGED <<ownerVars, rateVars, sinceSample, reg>>
    /\ UNCHANGED <<sessionVars, pullBits, reported, dtorRet, nThreads>>

\* a destructor that goes on without waiting for the worker
DtorNoJoin ==
    /\ cpc = "dtorJoin"
    /\ m_thrd' = "joined"
    /\ cpc' = "dtorRelease"
    /\ UNCHANGED <<client, m_windowWidth, m_windowHeight, m_resize, m_loop, m_evt,
                   m_totalFrame, m_nFrame, bufferSize, viewport, device,
                   mapped, wpc, val, hr, lastReq, nReq, nTaken, frameReady>>
    /\ UNCHANGED <<ownerVars, rateVars, sinceSample, reg>>
    /\ UNCHANGED <<sessionVars, pullBits, reported, dtorRet, nThreads>>

\* ~CD3D11Render: m_thrd->join(); returns once Loop has returned
DtorJoin ==
    /\ cpc = "dtorJoin"
    /\ wpc = "done"
    /\ m_thrd' = "joined"
    /\ cpc' = "dtorRelease"
    /\ UNCHANGED <<client, m_windowWidth, m_windowHeight, m_resize, m_loop, m_evt,
                   m_totalFrame, m_nFrame, bufferSize, viewport, device,
                   mapped, wpc, val, hr, lastReq, nReq, nTaken, frameReady>>
    /\ UNCHANGED <<ownerVars, rateVars, sinceSample, reg>>
    /\ nThreads' = nThreads - 1
    /\ UNCHANGED <<sessionVars, pullBits, reported, dtorRet>>

\* ~CD3D11Render: if (m_evt) CloseHandle(m_evt); then the CComPtr members release
\* the device, the context, the swapchain and the texture, and m_render is empty
DtorRelease ==
    /\ cpc = "dtorRelease"
    /\ m_evt' = IF m_evt = "null" THEN m_evt ELSE "closed"
    /\ device' = "released"
    /\ m_render' = "null"
    /\ cpc' = CASE dtorRet = "close" -> "closeCam"
                 [] dtorRet = "size" -> "size"
                 [] dtorRet = "init" -> "assign"
    /\ UNCHANGED <<client, m_windowWidth, m_windowHeight, m_resize, m_loop,
                   m_thrd, m_totalFrame, m_nFrame, bufferSize, viewport,
                   mapped, wpc, val, hr, lastReq, nReq, nTaken, frameReady>>
    /\ UNCHANGED <<image, camera, initRet, failedStep, rateVars, sinceSample, reg>>
    /\ UNCHANGED <<sessionVars, pullBits, reported, dtorRet, nThreads>>

\* Cdemod3d11Dlg::OnDestroy, after m_render.reset():
\* if (m_hcam) { Toupcam_Close(m_hcam); m_hcam = NULL; }
OnDestroyClose ==
    /\ cpc = "closeCam"
    /\ camera' = "closed"
    /\ cpc' = "destroyed"
    /\ UNCHANGED <<client, m_windowWidth, m_windowHeight, m_resize, m_loop, m_evt,
                   m_thrd, m_totalFrame, m_nFrame, bufferSize, viewport, device,
                   mapped, wpc, val, hr, lastReq, nReq, nTaken, frameReady>>
    /\ UNCHANGED <<image, m_render, initRet, failedStep, rateVars, sinceSample, reg>>
    /\ UNCHANGED <<sessionVars, pullBits, reported, dtorRet, nThreads>>

\* Cdemod3d11Dlg::OnEventError (TOUPCAM_EVENT_ERROR, NOFRAMETIMEOUT, NOPACKETTIMEOUT):
\* if (m_hcam) { Toupcam_Close(m_hcam); m_hcam = NULL; }  m_render is left as it is
OnEventError ==
    /\ cpc = "idle"
    /\ camera = "started"
    /\ camera' = "closed"
    /\ UNCHANGED <<client, m_windowWidth, m_windowHeight, m_resize, m_loop, m_evt,
                   m_thrd, m_totalFrame, m_nFrame, bufferSize, viewport, device,
                   mapped, wpc, val, hr, cpc, lastReq, nReq, nTaken, frameReady>>
    /\ UNCHANGED <<image, m_render, initRet, failedStep, rateVars, sinceSample, reg>>
    /\ UNCHANGED <<sessionVars, pullBits, reported, dtorRet, nThreads>>

\* Cdemod3d11Dlg::OnEventDisconnected (TOUPCAM_EVENT_DISCONNECTED):
\* if (m_hcam) { Toupcam_Close(m_hcam); m_hcam = NULL; }  m_render is left as it is
OnEventDisconnected ==
    /\ cpc = "idle"
    /\ camera = "started"
    /\ camera' = "closed"
    /\ UNCHANGED <<client, m_windowWidth, m_windowHeight, m_resize, m_loop, m_evt,
                   m_thrd, m_totalFrame, m_nFrame, bufferSize, viewport, device,
                   mapped, wpc, val, hr, cpc, lastReq, nReq, nTaken, frameReady>>
    /\ UNCHANGED <<image, m_render, initRet, failedStep, rateVars, sinceSample, reg>>
    /\ UNCHANGED <<sessionVars, pullBits, reported, dtorRet, nThreads>>

\* the steps that finish a handler the control thread has begun
Control ==
    \/ ResizeReadHeight
    \/ ResizeStore
    \/ ResizeSignal
    \/ DtorSignal
    \/ DtorJoin
    \/ DtorRelease
    \/ OnDestroyClose

\* the events the dialog receives
Event ==
    \/ \E s \in WinSizes : OnSize(s)
    \/ Render
    \/ DtorStop
    \/ OnEventError
    \/ OnEventDisconnected

Next == Worker \/ Control \/ Event

Spec == Init /\ [][Next]_vars

----------------------------------------------------------------------------
(* The start of a session: Cdemod3d11Dlg::StartDevice constructs the        *)
(* renderer and calls Init(), each of whose sub-steps may fail.             *)

\* INT_MIN
IntMin == -2147483647 - 1

\* the sub-steps of Init() that return a result: D3D11CreateDeviceAndSwapChain,
\* CreateTexture2D, CreateShaderResourceView, CreateShaders, CreateSampler and
\* the initial Resize(w, h)
InitSteps == {"device", "texture", "srv", "shaders", "sampler", "resize"}

\* the sub-steps whose result Init() tests: if (FAILED(hr)) return false;
TestedSteps == {"device", "texture", "srv", "shaders", "sampler"}

\* the dialog has the camera open and no renderer yet
StartInit ==
    /\ client \in WinSizes
    /\ m_windowWidth = IntMin
    /\ m_windowHeight = IntMin
    /\ m_resize = NoRequest
    /\ m_loop = TRUE
    /\ m_evt = "null"
    /\ m_thrd = "null"
    /\ m_totalFrame = 0
    /\ m_nFrame = 0
    /\ bufferSize = None
    /\ viewport = None
    /\ device = "none"
    /\ mapped = FALSE
    /\ wpc = "none"
    /\ val = NoRequest
    /\ hr = Unset
    /\ cpc = "start"
    /\ lastReq = None
    /\ nReq = 0
    /\ nTaken = 0
    /\ frameReady = FALSE
    /\ image = ImageSize
    /\ m_render = "null"
    /\ camera = "stopped"
    /\ initRet = "none"
    /\ failedStep = "none"
    /\ now = 0
    /\ tick = <<0, 0>>
    /\ m_nTick = <<0, 0>>
    /\ call = None
    /\ sample = None
    /\ lastCall = None
    /\ winStart = 0
    /\ sinceSample = 0
    /\ reg = 0
    /\ m_bitdepth = 8
    /\ m_bMono = FALSE
    /\ texFormat = None
    /\ shaderScale = None
    /\ frameCap = MaxFrames
    /\ pullBits = 0
    /\ reported = 0
    /\ dtorRet = "close"
    /\ nThreads = IF m_thrd = "running" THEN 1 ELSE 0

\* StartDevice: m_render = make_shared<CD3D11Render>(...); if (!m_render->Init())
\* return; Toupcam_StartPullModeWithWndMsg(...).  The constructor gives the new
\* renderer m_loop(true), m_resize(0), zero counters and m_nTick(get_precise_tick()),
\* and the histories begin anew with it.  f is the sub-step of Init()
\* that fails, or "none".  A tested sub-step that fails makes Init() return false
\* before the event and the thread are created; the result of the initial
\* Resize(w, h) is not tested, and when it fails the viewport has not been set.
StartDevice(f) ==
    /\ cpc = "start"
    /\ m_render' = "held"
    /\ failedStep' = f
    /\ initRet' = IF f \in TestedSteps THEN "false" ELSE "true"
    /\ device' = IF f = "device" THEN "none" ELSE "alive"
    /\ bufferSize' = IF f = "device" THEN None ELSE client
    /\ m_windowWidth' = IF f \in TestedSteps THEN IntMin ELSE client[1]
    /\ m_windowHeight' = IF f \in TestedSteps THEN IntMin ELSE client[2]
    /\ viewport' = IF f = "none" THEN Viewport(client[1], client[2]) ELSE None
    /\ texFormat' = IF f \in {"device", "texture"} THEN None
                    ELSE TexFormat(m_bMono, m_bitdepth)
    /\ shaderScale' = IF f \in {"device", "texture", "srv", "shaders"} THEN None
                      ELSE Scale(m_bitdepth)
    /\ m_evt' = IF f \in TestedSteps THEN "null" ELSE "unset"
    /\ m_thrd' = IF f \in TestedSteps THEN "null" ELSE "running"
    /\ wpc' = IF f \in TestedSteps THEN "none" ELSE "test"
    /\ camera' = IF f \in TestedSteps THEN "stopped" ELSE "started"
    /\ cpc' = "idle"
    /\ m_resize' = NoRequest
    /\ m_loop' = TRUE
    /\ m_totalFrame' = 0
    /\ m_nFrame' = 0
    /\ m_nTick' = tick
    /\ winStart' = now
    /\ mapped' = FALSE /\ val' = NoRequest /\ hr' = Unset /\ reg' = 0 /\ pullBits' = 0
    /\ lastReq' = None /\ nReq' = 0 /\ nTaken' = 0 /\ frameReady' = FALSE
    /\ call' = None /\ sample' = None /\ lastCall' = None
    /\ sinceSample' = 0 /\ reported' = 0
    /\ nThreads' = IF f \in TestedSteps THEN nThreads ELSE nThreads + 1
    /\ UNCHANGED <<client, image, now, tick, m_bitdepth, m_bMono, frameCap, dtorRet>>

StartNext ==
    \/ \E f \in InitSteps \cup {"none"} : StartDevice(f)
    \/ Worker
    \/ Control
    \/ Event

StartSpec == StartInit /\ [][StartNext]_vars

----------------------------------------------------------------------------
(* The frame-rate query: Cdemod3d11Dlg::OnTimer -> CD3D11Render::GetFrameRate. *)
(* It runs on the control thread while the worker counts frames; m_nFrame   *)
(* and m_totalFrame are plain unsigned members, so each access is a step.   *)

\* the clock runs while now stays within this many milliseconds
MaxTime == 1002

\* the amounts of time, in milliseconds, by which the clock advances
ClockSteps == {250, 251}

\* what get_precise_tick() returns when the run begins: 0, and 501 ms before
\* the 32-bit tick wraps
TickStarts == { <<0, 0>>, <<65535, 65035>> }

\* the frame count and the time the camera reported to OnTimer, which hands
\* the same variables on to GetFrameRate
CamRates == { <<2, <<0, 1000>> >> }

\* if (diff > 500)
RateWindow == 500

\* (p + n) mod 2^32, for an unsigned p and a number n below 2^16
Add32(p, n) ==
    << (p[1] + ((p[2] + n) \div Half)) % Half, (p[2] + n) % Half >>

\* a difference that stops at 0 instead of wrapping
Sub32Clamped(a, b) ==
    IF a[1] < b[1] \/ (a[1] = b[1] /\ a[2] < b[2])
    THEN << 0, 0 >>
    ELSE LET borrow == IF a[2] < b[2] THEN 1 ELSE 0
         IN  << a[1] - b[1] - borrow, (a[2] - b[2] + Half) % Half >>


\* unsigned diff = a - b: (a - b) mod 2^32
Sub32(a, b) ==
    LET borrow == IF a[2] < b[2] THEN 1 ELSE 0
    IN  << (a[1] - b[1] - borrow + Half) % Half, (a[2] - b[2] + Half) % Half >>

\* p > n, for an unsigned p and a number n below 2^16
Above(p, n) == p[1] > 0 \/ p[2] > n

\* a number below 2^16 as an unsigned
U32(n) == << 0, n >>

\* steady_clock advances by d milliseconds
Tick(d) ==
    /\ now + d <= MaxTime
    /\ now' = now + d
    /\ tick' = Add32(tick, d)
    /\ UNCHANGED <<client, m_windowWidth, m_windowHeight, m_resize, m_loop, m_evt,
                   m_thrd, m_totalFrame, m_nFrame, bufferSize, viewport, device,
                   mapped, wpc, val, hr, cpc, lastReq, nReq, nTaken, frameReady>>
    /\ UNCHANGED <<ownerVars, m_nTick, call, sample, lastCall, winStart, sinceSample, reg>>
    /\ UNCHANGED <<sessionVars, pullBits, reported, dtorRet, nThreads>>

\* OnTimer: if (... && m_hcam && m_render), Toupcam_get_FrameRate has filled
\* nFrame and nTime, nTotalRender is 0; GetFrameRate: unsigned tick = get_precise_tick();
OnTimer(r) ==
    /\ cpc = "idle"
    /\ m_render = "held"
    /\ camera = "started"
    /\ call' = <<now, tick>>
    /\ sample' = <<"running", r[1], r[2], 0>>
    /\ lastCall' = IF call = None THEN None ELSE <<call[1], sample[1]>>
    /\ cpc' = "gfr"
    /\ UNCHANGED <<client, m_windowWidth, m_windowHeight, m_resize, m_loop, m_evt,
                   m_thrd, m_totalFrame, m_nFrame, bufferSize, viewport, device,
                   mapped, wpc, val, hr, lastReq, nReq, nTaken, frameReady>>
    /\ UNCHANGED <<ownerVars, now, tick, m_nTick, winStart, sinceSample, reg>>
    /\ UNCHANGED <<sessionVars, pullBits, reported, dtorRet, nThreads>>

\* a query that returns a sample once 500 ms have passed
GfrTestAtLeast ==
    /\ cpc = "gfr"
    /\ LET diff == Sub32(call[2], m_nTick)
       IN  IF Above(diff, RateWindow - 1)
           THEN /\ sample' = <<"running", sample[2], diff, sample[4]>>
                /\ cpc' = "gfrFrame"
           ELSE /\ sample' = <<"false", sample[2], sample[3], sample[4]>>
                /\ cpc' = "idle"
    /\ UNCHANGED <<client, m_windowWidth, m_windowHeight, m_resize, m_loop, m_evt,
                   m_thrd, m_totalFrame, m_nFrame, bufferSize, viewport, device,
                   mapped, wpc, val, hr, lastReq, nReq, nTaken, frameReady>>
    /\ UNCHANGED <<ownerVars, now, tick, m_nTick, call, lastCall, winStart, sinceSample, reg>>
    /\ UNCHANGED <<sessionVars, pullBits, reported, dtorRet, nThreads>>

\* a query that hands the elapsed time back also when it returns nothing
GfrTestWritesTime ==
    /\ cpc = "gfr"
    /\ LET diff == Sub32(call[2], m_nTick)
       IN  IF Above(diff, RateWindow)
           THEN /\ sample' = <<"running", sample[2], diff, sample[4]>>
                /\ cpc' = "gfrFrame"
           ELSE /\ sample' = <<"false", sample[2], diff, sample[4]>>
                /\ cpc' = "idle"
    /\ UNCHANGED <<client, m_windowWidth, m_windowHeight, m_resize, m_loop, m_evt,
                   m_thrd, m_totalFrame, m_nFrame, bufferSize, viewport, device,
                   mapped, wpc, val, hr, lastReq, nReq, nTaken, frameReady>>
    /\ UNCHANGED <<ownerVars, now, tick, m_nTick, call, lastCall, winStart, sinceSample, reg>>
    /\ UNCHANGED <<sessionVars, pullBits, reported, dtorRet, nThreads>>

\* unsigned diff = tick - m_nTick; if (diff > 500) { nTime = diff; ... } return false;
GfrTest ==
    /\ cpc = "gfr"
    /\ LET diff == Sub32(call[2], m_nTick)
       IN  IF Above(diff, RateWindow)
           THEN /\ sample' = <<"running", sample[2], diff, sample[4]>>
                /\ cpc' = "gfrFrame"
           ELSE /\ sample' = <<"false", sample[2], sample[3], sample[4]>>
                /\ cpc' = "idle"
    /\ UNCHANGED <<client, m_windowWidth, m_windowHeight, m_resize, m_loop, m_evt,
                   m_thrd, m_totalFrame, m_nFrame, bufferSize, viewport, device,
                   mapped, wpc, val, hr, lastReq, nReq, nTaken, frameReady>>
    /\ UNCHANGED <<ownerVars, now, tick, m_nTick, call, lastCall, winStart, sinceSample, reg>>
    /\ UNCHANGED <<sessionVars, pullBits, reported, dtorRet, nThreads>>

\* nFrame = m_nFrame;
GfrReadFrame ==
    /\ cpc = "gfrFrame"
    /\ sample' = <<"running", m_nFrame, sample[3], sample[4]>>
    /\ sinceSample' = 0
    /\ cpc' = "gfrTotal"
    /\ UNCHANGED <<client, m_windowWidth, m_windowHeight, m_resize, m_loop, m_evt,
                   m_thrd, m_totalFrame, m_nFrame, bufferSize, viewport, device,
                   mapped, wpc, val, hr, lastReq, nReq, nTaken, frameReady>>
    /\ UNCHANGED <<ownerVars, now, tick, m_nTick, call, lastCall, winStart, reg>>
    /\ UNCHANGED <<sessionVars, pullBits, reported, dtorRet, nThreads>>

\* a query that leaves m_nTick as it was
GfrKeepsTick ==
    /\ cpc = "gfrTotal"
    /\ sample' = <<"running", sample[2], sample[3], m_totalFrame>>
    /\ cpc' = "gfrReset"
    /\ UNCHANGED <<client, m_windowWidth, m_windowHeight, m_resize, m_loop, m_evt,
                   m_thrd, m_totalFrame, m_nFrame, bufferSize, viewport, device,
                   mapped, wpc, val, hr, lastReq, nReq, nTaken, frameReady>>
    /\ UNCHANGED <<ownerVars, now, tick, m_nTick, call, lastCall, winStart, sinceSample, reg>>
    /\ UNCHANGED <<sessionVars, pullBits, reported, dtorRet, nThreads>>

\* nTotal = m_totalFrame; m_nTick = tick;
GfrReadTotal ==
    /\ cpc = "gfrTotal"
    /\ sample' = <<"running", sample[2], sample[3], m_totalFrame>>
    /\ m_nTick' = call[2]
    /\ winStart' = call[1]
    /\ cpc' = "gfrReset"
    /\ UNCHANGED <<client, m_windowWidth, m_windowHeight, m_resize, m_loop, m_evt,
                   m_thrd, m_totalFrame, m_nFrame, bufferSize, viewport, device,
                   mapped, wpc, val, hr, lastReq, nReq, nTaken, frameReady>>
    /\ UNCHANGED <<ownerVars, now, tick, call, lastCall, sinceSample, reg>>
    /\ UNCHANGED <<sessionVars, pullBits, reported, dtorRet, nThreads>>

\* m_nFrame = 0; return true;
GfrReset ==
    /\ cpc = "gfrReset"
    /\ m_nFrame' = 0
    /\ sample' = <<"true", sample[2], sample[3], sample[4]>>
    /\ reported' = reported + sample[2]
    /\ cpc' = "idle"
    /\ UNCHANGED <<client, m_windowWidth, m_windowHeight, m_resize, m_loop, m_evt,
                   m_thrd, m_totalFrame, bufferSize, viewport, device,
                   mapped, wpc, val, hr, lastReq, nReq, nTaken, frameReady>>
    /\ UNCHANGED <<ownerVars, now, tick, m_nTick, call, lastCall, winStart, sinceSample, reg>>
    /\ UNCHANGED <<sessionVars, pullBits, dtorRet, nThreads>>

\* a session in which the window keeps its size: the renderer has been
\* constructed at some tick and Init() has returned true
RateInit ==
    /\ image = ImageSize
    /\ client = <<640, 480>>
    /\ m_windowWidth = client[1]
    /\ m_windowHeight = client[2]
    /\ m_resize = NoRequest
    /\ m_loop = TRUE
    /\ m_evt = "unset"
    /\ m_thrd = "running"
    /\ m_totalFrame = 0
    /\ m_nFrame = 0
    /\ bufferSize = client
    /\ viewport = Viewport(client[1], client[2])
    /\ device = "alive"
    /\ mapped = FALSE
    /\ wpc = "test"
    /\ val = NoRequest
    /\ hr = Unset
    /\ cpc = "idle"
    /\ lastReq = None
    /\ nReq = 0
    /\ nTaken = 0
    /\ frameReady = FALSE
    /\ m_render = "held"
    /\ camera = "started"
    /\ initRet = "true"
    /\ failedStep = "none"
    /\ now = 0
    /\ tick \in TickStarts
    /\ m_nTick = tick
    /\ call = None
    /\ sample = None
    /\ lastCall = None
    /\ winStart = 0
    /\ sinceSample = 0
    /\ reg = 0
    /\ m_bitdepth = 8
    /\ m_bMono = FALSE
    /\ texFormat = TexFormat(m_bMono, m_bitdepth)
    /\ shaderScale = Scale(m_bitdepth)
    /\ frameCap = RateFrames
    /\ pullBits = 0
    /\ reported = 0
    /\ dtorRet = "close"
    /\ nThreads = IF m_thrd = "running" THEN 1 ELSE 0

RateNext ==
    \/ LoopTest
    \/ LoopLoad
    \/ LoopMap
    \/ LoopPull
    \/ LoopUnmap
    \/ LoopWait
    \/ LoopSetupRtv
    \/ LoopDraw
    \/ LoopPresent
    \/ LoopCountTotal
    \/ LoopCountRead
    \/ LoopCountWrite
    \/ Render
    \/ \E d \in ClockSteps : Tick(d)
    \/ \E r \in CamRates : OnTimer(r)
    \/ GfrTest
    \/ GfrReadFrame
    \/ GfrReadTotal
    \/ GfrReset

RateSpec == RateInit /\ [][RateNext]_vars

----------------------------------------------------------------------------
(* The viewport computation of Resize(int, int), for image and window      *)
(* sizes drawn from a set of dimensions.                                    *)

\* widths and heights of the image and of the window
ViewDims == {1, 2, 7, 31, 640, 960, 1080, 1280, 1920}

\* a renderer for an image of some size in a window of some size, Init() done
ViewInit ==
    /\ image \in ViewDims \X ViewDims
    /\ client \in ViewDims \X ViewDims
    /\ m_windowWidth = client[1]
    /\ m_windowHeight = client[2]
    /\ m_resize = NoRequest
    /\ m_loop = TRUE
    /\ m_evt = "unset"
    /\ m_thrd = "running"
    /\ m_totalFrame = 0
    /\ m_nFrame = 0
    /\ bufferSize = client
    /\ viewport = Viewport(client[1], client[2])
    /\ device = "alive"
    /\ mapped = FALSE
    /\ wpc = "test"
    /\ val = NoRequest
    /\ hr = Unset
    /\ cpc = "idle"
    /\ lastReq = None
    /\ nReq = 0
    /\ nTaken = 0
    /\ frameReady = FALSE
    /\ m_render = "held"
    /\ camera = "started"
    /\ initRet = "true"
    /\ failedStep = "none"
    /\ now = 0
    /\ tick = <<0, 0>>
    /\ m_nTick = <<0, 0>>
    /\ call = None
    /\ sample = None
    /\ lastCall = None
    /\ winStart = 0
    /\ sinceSample = 0
    /\ reg = 0
    /\ m_bitdepth = 8
    /\ m_bMono = FALSE
    /\ texFormat = TexFormat(m_bMono, m_bitdepth)
    /\ shaderScale = Scale(m_bitdepth)
    /\ frameCap = MaxFrames
    /\ pullBits = 0
    /\ reported = 0
    /\ dtorRet = "close"
    /\ nThreads = IF m_thrd = "running" THEN 1 ELSE 0

\* Resize(w, h) with GetDesc and ResizeBuffers succeeding
ViewResize(w, h) ==
    /\ client' = <<w, h>>
    /\ m_windowWidth' = w
    /\ m_windowHeight' = h
    /\ bufferSize' = <<w, h>>
    /\ viewport' = Viewport(w, h)
    /\ UNCHANGED <<m_resize, m_loop, m_evt, m_thrd, m_totalFrame, m_nFrame, device,
                   mapped, wpc, val, hr, cpc, lastReq, nReq, nTaken, frameReady>>
    /\ UNCHANGED <<ownerVars, rateVars, sinceSample, reg>>
    /\ UNCHANGED <<sessionVars, pullBits, reported, dtorRet, nThreads>>

ViewNext == \E w \in ViewDims, h \in ViewDims : ViewResize(w, h)

ViewSpec == ViewInit /\ [][ViewNext]_vars

----------------------------------------------------------------------------
(* Sessions with cameras of every kind: the constructor has read the bit    *)
(* depth and the mono mode, and StartDevice and the worker go on from there. *)

\* the bit depths m_bitdepth takes
BitDepths == {1, 8, 9, 10, 12, 14, 15, 16, 17}

\* the dialog has a camera of some bit depth, mono or colour, open
FormatInit ==
    /\ client = <<640, 480>>
    /\ m_windowWidth = IntMin
    /\ m_windowHeight = IntMin
    /\ m_resize = NoRequest
    /\ m_loop = TRUE
    /\ m_evt = "null"
    /\ m_thrd = "null"
    /\ m_totalFrame = 0
    /\ m_nFrame = 0
    /\ bufferSize = None
    /\ viewport = None
    /\ device = "none"
    /\ mapped = FALSE
    /\ wpc = "none"
    /\ val = NoRequest
    /\ hr = Unset
    /\ cpc = "start"
    /\ lastReq = None
    /\ nReq = 0
    /\ nTaken = 0
    /\ frameReady = FALSE
    /\ image = ImageSize
    /\ m_render = "null"
    /\ camera = "stopped"
    /\ initRet = "none"
    /\ failedStep = "none"
    /\ now = 0
    /\ tick = <<0, 0>>
    /\ m_nTick = <<0, 0>>
    /\ call = None
    /\ sample = None
    /\ lastCall = None
    /\ winStart = 0
    /\ sinceSample = 0
    /\ reg = 0
    /\ m_bitdepth \in BitDepths
    /\ m_bMono \in BOOLEAN
    /\ texFormat = None
    /\ shaderScale = None
    /\ frameCap = MaxFrames
    /\ pullBits = 0
    /\ reported = 0
    /\ dtorRet = "close"
    /\ nThreads = IF m_thrd = "running" THEN 1 ELSE 0

FormatNext ==
    \/ \E f \in InitSteps \cup {"none"} : StartDevice(f)
    \/ LoopTest
    \/ LoopLoad
    \/ LoopMap
    \/ LoopPull
    \/ LoopUnmap
    \/ LoopWait
    \/ LoopSetupRtv
    \/ LoopDraw
    \/ LoopPresent
    \/ LoopCountTotal
    \/ LoopCountRead
    \/ LoopCountWrite
    \/ Render

FormatSpec == FormatInit /\ [][FormatNext]_vars

----------------------------------------------------------------------------
(* The resize register over the whole range of its two 15-bit fields: the   *)
(* window takes sizes at the ends of the range while the camera delivers no  *)
(* frame, so that the worker only applies requests and waits.                *)

\* client-area sizes at the ends of the range 0..32767
PackSizes == { <<0, 0>>, <<1, 32767>>, <<32767, 1>>, <<32767, 32767>> }

PackInit ==
    /\ image = ImageSize
    /\ client \in PackSizes
    /\ m_windowWidth = client[1]
    /\ m_windowHeight = client[2]
    /\ m_resize = NoRequest
    /\ m_loop = TRUE
    /\ m_evt = "unset"
    /\ m_thrd = "running"
    /\ m_totalFrame = 0
    /\ m_nFrame = 0
    /\ bufferSize = client
    /\ viewport = Viewport(client[1], client[2])
    /\ device = "alive"
    /\ mapped = FALSE
    /\ wpc = "test"
    /\ val = NoRequest
    /\ hr = Unset
    /\ cpc = "idle"
    /\ lastReq = None
    /\ nReq = 0
    /\ nTaken = 0
    /\ frameReady = FALSE
    /\ m_render = "held"
    /\ camera = "started"
    /\ initRet = "true"
    /\ failedStep = "none"
    /\ now = 0
    /\ tick = <<0, 0>>
    /\ m_nTick = <<0, 0>>
    /\ call = None
    /\ sample = None
    /\ lastCall = None
    /\ winStart = 0
    /\ sinceSample = 0
    /\ reg = 0
    /\ m_bitdepth = 8
    /\ m_bMono = FALSE
    /\ texFormat = TexFormat(m_bMono, m_bitdepth)
    /\ shaderScale = Scale(m_bitdepth)
    /\ frameCap = 0
    /\ pullBits = 0
    /\ reported = 0
    /\ dtorRet = "close"
    /\ nThreads = IF m_thrd = "running" THEN 1 ELSE 0

PackNext ==
    \/ \E s \in PackSizes : OnSize(s)
    \/ ResizeReadHeight
    \/ ResizeStore
    \/ ResizeSignal
    \/ LoopTest
    \/ LoopLoad
    \/ LoopClear
    \/ ResizeSetWidth
    \/ ResizeSetHeight
    \/ LoopMap
    \/ LoopPull
    \/ LoopUnmap
    \/ LoopWait

PackSpec == PackInit /\ [][PackNext]_vars

----------------------------------------------------------------------------
(* Sessions that follow one another: the resolution is changed, or the      *)
(* camera is lost and opened again, and StartDevice makes a new renderer.   *)
(* The window is not resized in these runs.                                 *)

\* the resolutions Toupcam_get_Size reports
Resolutions == { <<1280, 960>>, <<640, 480>> }

\* a handler that starts the device again and leaves the renderer it has
ComboKeepsRenderer ==
    /\ cpc = "idle"
    /\ camera # "closed"
    /\ camera' = "stopped"
    /\ dtorRet' = "size"
    /\ cpc' = "size"
    /\ UNCHANGED <<client, m_windowWidth, m_windowHeight, m_resize, m_loop, m_evt,
                   m_thrd, m_totalFrame, m_nFrame, bufferSize, viewport, device,
                   mapped, wpc, val, hr, lastReq, nReq, nTaken, frameReady>>
    /\ UNCHANGED <<image, m_render, initRet, failedStep, rateVars, sinceSample, reg>>
    /\ UNCHANGED <<sessionVars, pullBits, reported, nThreads>>

\* Cdemod3d11Dlg::OnCbnSelchangeCombo1 with another resolution selected:
\* if (NULL == m_hcam) return; hr = Toupcam_Stop(m_hcam); m_render.reset();
\* which enters ~CD3D11Render when a renderer is held: if (m_thrd) { m_loop = false; ...
\* (a handler that returns early, on a failed get_eSize or Stop, changes nothing)
OnCbnSelchangeCombo1 ==
    /\ cpc = "idle"
    /\ camera # "closed"
    /\ camera' = "stopped"
    /\ dtorRet' = "size"
    /\ m_loop' = IF m_render = "held" /\ m_thrd # "null" THEN FALSE ELSE m_loop
    /\ cpc' = IF m_render = "null" THEN "size"
              ELSE IF m_thrd = "null" THEN "dtorRelease" ELSE "dtorSignal"
    /\ UNCHANGED <<client, m_windowWidth, m_windowHeight, m_resize, m_evt,
                   m_thrd, m_totalFrame, m_nFrame, bufferSize, viewport, device,
                   mapped, wpc, val, hr, lastReq, nReq, nTaken, frameReady>>
    /\ UNCHANGED <<image, m_render, initRet, failedStep, rateVars, sinceSample, reg>>
    /\ UNCHANGED <<sessionVars, pullBits, reported, nThreads>>

\* OnCbnSelchangeCombo1 after the reset: Toupcam_put_eSize(m_hcam, nSel);
\* StartDevice: hr = Toupcam_get_Size(m_hcam, &nWidth, &nHeight); if (FAILED(hr)) return;
StartDeviceGetSize ==
    /\ cpc = "size"
    /\ \/ /\ cpc' = "idle"
          /\ image' = image
       \/ /\ cpc' = "start"
          /\ image' \in Resolutions
    /\ UNCHANGED <<client, m_windowWidth, m_windowHeight, m_resize, m_loop, m_evt,
                   m_thrd, m_totalFrame, m_nFrame, bufferSize, viewport, device,
                   mapped, wpc, val, hr, lastReq, nReq, nTaken, frameReady>>
    /\ UNCHANGED <<m_render, camera, initRet, failedStep, rateVars, sinceSample, reg>>
    /\ UNCHANGED <<sessionVars, pullBits, reported, dtorRet, nThreads>>

\* Cdemod3d11Dlg::OnBnClickedButton1: if (m_hcam) return; m_hcam = Toupcam_Open(NULL);
\* ... StartDevice: Toupcam_get_Size fails and StartDevice returns, or
\* m_render = std::make_shared<CD3D11Render>(...): the new renderer is constructed,
\* without a thread, and the assignment releases the renderer held before, which
\* enters ~CD3D11Render.  (A failed Toupcam_Open changes nothing.)
OnBnClickedButton1 ==
    /\ cpc = "idle"
    /\ camera = "closed"
    /\ camera' = "stopped"
    /\ \/ /\ cpc' = "idle"
          /\ UNCHANGED <<m_loop, dtorRet>>
       \/ /\ dtorRet' = "init"
          /\ m_loop' = IF m_render = "held" /\ m_thrd # "null" THEN FALSE ELSE m_loop
          /\ cpc' = IF m_render = "null" THEN "assign"
                    ELSE IF m_thrd = "null" THEN "dtorRelease" ELSE "dtorSignal"
    /\ UNCHANGED <<client, m_windowWidth, m_windowHeight, m_resize, m_evt,
                   m_thrd, m_totalFrame, m_nFrame, bufferSize, viewport, device,
                   mapped, wpc, val, hr, lastReq, nReq, nTaken, frameReady>>
    /\ UNCHANGED <<image, m_render, initRet, failedStep, rateVars, sinceSample, reg>>
    /\ UNCHANGED <<sessionVars, pullBits, reported, nThreads>>

\* StartDevice, m_render = ...: the renderer made with the size Toupcam_get_Size
\* reported becomes the one m_render holds
StartDeviceAssign ==
    /\ cpc = "assign"
    /\ image' \in Resolutions
    /\ cpc' = "start"
    /\ UNCHANGED <<client, m_windowWidth, m_windowHeight, m_resize, m_loop, m_evt,
                   m_thrd, m_totalFrame, m_nFrame, bufferSize, viewport, device,
                   mapped, wpc, val, hr, lastReq, nReq, nTaken, frameReady>>
    /\ UNCHANGED <<m_render, camera, initRet, failedStep, rateVars, sinceSample, reg>>
    /\ UNCHANGED <<sessionVars, pullBits, reported, dtorRet, nThreads>>

\* a session is running in a window of 640 x 480
ReopenInit == Init /\ client = <<640, 480>>

ReopenNext ==
    \/ LoopTest
    \/ LoopLoad
    \/ LoopMap
    \/ LoopPull
    \/ LoopUnmap
    \/ LoopWait
    \/ LoopSetupRtv
    \/ LoopDraw
    \/ LoopPresent
    \/ LoopCountTotal
    \/ LoopCountRead
    \/ LoopCountWrite
    \/ Render
    \/ OnEventError
    \/ OnEventDisconnected
    \/ OnCbnSelchangeCombo1
    \/ OnBnClickedButton1
    \/ StartDeviceGetSize
    \/ StartDeviceAssign
    \/ \E f \in InitSteps \cup {"none"} : StartDevice(f)
    \/ DtorStop
    \/ DtorSignal
    \/ DtorJoin
    \/ DtorRelease
    \/ OnDestroyClose

ReopenSpec == ReopenInit /\ [][ReopenNext]_vars

\* client-area sizes the window takes in the runs checked for liveness
LiveSizes == { <<640, 480>>, <<800, 600>> }

LiveInit == Init /\ client \in LiveSizes

LiveEvent ==
    \/ \E s \in LiveSizes : OnSize(s)
    \/ Render
    \/ DtorStop

LiveNext == Worker \/ Control \/ LiveEvent

\* both threads are scheduled: a step of the worker, or of a handler the control
\* thread has begun, that stays possible is eventually taken; the events the
\* dialog receives are under no obligation to arrive or to stop arriving
FairSpec == LiveInit /\ [][LiveNext]_vars /\ WF_vars(Worker) /\ WF_vars(Control)

----------------------------------------------------------------------------
(* A whole session: the window is resized, frames arrive, the frame rate is *)
(* queried and the dialog is destroyed, in any order.                        *)

\* the window has its smaller size when the session begins
SessionInit == Init /\ client = <<640, 480>>

SessionNext ==
    \/ Worker
    \/ Control
    \/ LiveEvent
    \/ Tick(MaxTime)
    \/ \E r \in CamRates : OnTimer(r)
    \/ GfrTest
    \/ GfrReadFrame
    \/ GfrReadTotal
    \/ GfrReset

SessionSpec == SessionInit /\ [][SessionNext]_vars

----------------------------------------------------------------------------
(* The properties *)

\* the window size the worker last applied
Applied == << m_windowWidth, m_windowHeight >>

\* the size a register value asks for
Requested(v) == << UnpackWidth(v), UnpackHeight(v) >>

\* the worker is inside the resize branch of an iteration
Applying == wpc \in {"clear", "resizeW", "resizeH"}

\* the worker is past the register check of an iteration that pulls and draws
Drawing ==
    wpc \in {"map", "pull", "unmap", "rtv", "draw", "present", "countT", "countR", "countW"}

\* C1: a request stored by Resize() is never lost.  Whenever the register holds
\* no request and the worker is not in the middle of applying one, the size the
\* worker last applied is the size of the latest request stored.
C1_NoRequestLost ==
    (lastReq # None /\ ~Pending(m_resize) /\ ~Applying) => Applied = lastReq

\* C2: of the requests stored before the worker reads the register, the worker
\* takes exactly the last one (the value it loads asks for the size of the latest
\* store), its store(0) leaves the pending flag clear, and Resize(w, h) records
\* exactly the size loaded.
C2_LastRequestWins ==
    [][ /\ (wpc = "load" /\ wpc' # wpc /\ Pending(m_resize)) =>
               (wpc' = "clear" /\ Requested(val') = lastReq)
        /\ (wpc = "clear" /\ wpc' # wpc) => ~Pending(m_resize')
        /\ (wpc = "resizeH" /\ wpc' # wpc) => Applied' = Requested(val)
      ]_vars

\* C2's case: two or more requests were stored before the worker read the
\* register, and the worker has applied the last of them and left the flag clear
C2_Coalesced ==
    wpc = "test" /\ nTaken > 1 /\ Applied = lastReq /\ ~Pending(m_resize)

\* C3: once the destructor has cleared m_loop, the worker exits, join returns
\* and the destructor finishes, wherever the worker was.
C3_ShutdownCompletes ==
    (~m_loop) ~> (m_thrd = "joined" /\ cpc = "destroyed")

\* C3's case: the shutdown has completed with a resize request still in the register
C3_StoppedWithRequestPending ==
    cpc = "destroyed" /\ m_thrd = "joined" /\ Pending(m_resize)

\* C4: the event handle and the device objects are released only after the
\* worker has returned from Loop and been joined; the flag is cleared before the
\* join, and a worker parked on the event while the owner joins has been signalled.
C4_ReleaseAfterJoin ==
    /\ (device = "released" \/ m_evt = "closed") => (wpc = "done" /\ m_thrd = "joined")
    /\ cpc \in {"dtorJoin", "dtorRelease", "destroyed"} => ~m_loop
    /\ (cpc = "dtorJoin" /\ wpc = "wait") => m_evt = "set"

\* C4's case: the destructor has released the event and the device objects
C4_Released ==
    device = "released" /\ m_evt = "closed" /\ wpc = "done"

\* C5: an iteration that reads the register with the pending flag set clears it,
\* applies the resize and goes back to the loop test; on the way it assigns no
\* hr, maps nothing and counts no frame.
C5_ResizeBeforeDraw ==
    [][ /\ (wpc = "load" /\ wpc' # wpc /\ Pending(m_resize)) => wpc' = "clear"
        /\ (wpc = "clear" /\ wpc' # wpc) => wpc' = "resizeW"
        /\ (wpc = "resizeW" /\ wpc' # wpc) =>
               (wpc' = "resizeH" /\ m_windowWidth' = UnpackWidth(val))
        /\ (wpc = "resizeH" /\ wpc' # wpc) =>
               (wpc' = "test" /\ m_windowHeight' = UnpackHeight(val))
        /\ (Applying /\ wpc' # wpc) =>
               (hr' = Unset /\ ~mapped' /\ m_totalFrame' = m_totalFrame /\ m_nFrame' = m_nFrame)
      ]_vars

\* C5's case: the worker is back at the loop test from an iteration that applied
\* a resize, having pulled nothing
C5_ResizedAndRestarted ==
    wpc = "test" /\ nTaken > 0 /\ hr = Unset /\ ~mapped /\ m_loop

\* C6 as stated: no Present is issued while a request is pending in the register.
C6_NoPresentWhilePending ==
    wpc = "present" => ~Pending(m_resize)

\* C6 as amended: the worker pulls, draws and presents only in an iteration whose
\* read of the register found no request pending.
C6_NoPresentAfterSeenRequest ==
    Drawing => ~Pending(val)

\* C6's case: the worker is about to present while a request stored after its
\* read of the register is pending
C6_PresentWithLaterRequest ==
    wpc = "present" /\ Pending(m_resize) /\ ~Pending(val)

\* C7: with Resize() called after every change of the window, once both threads
\* are at rest (no handler running, the worker parked on an unsignalled event,
\* no request pending) the size the worker applied is the window's client size.
C7_ConvergesToWindow ==
    (cpc = "idle" /\ wpc = "wait" /\ m_evt = "unset" /\ ~Pending(m_resize)) =>
        Applied = client

\* C8: the event loses no wakeup and coalesces.  A signal stays until a wait
\* takes it (or the handle is closed); a wait returns only on a signal and
\* resets it, so the signals before one wait make one wakeup; and a signalled
\* event lets the wait return.
C8_EventCoalesces ==
    /\ []((wpc = "wait" /\ m_evt = "set") => ENABLED LoopWait)
    /\ [][ /\ (m_evt = "set" /\ m_evt' # "set") =>
                  ((wpc = "wait" /\ wpc' = "test" /\ m_evt' = "unset") \/ m_evt' = "closed")
           /\ (wpc = "wait" /\ wpc' # wpc) => (m_evt = "set" /\ m_evt' = "unset")
         ]_vars

\* C8's case: two Resize() calls have signalled the event since the worker last
\* read the register, and the worker, now on the wait, finds it signalled once
C8_TwoSignalsOneWake ==
    wpc = "wait" /\ m_evt = "set" /\ nReq > 1 /\ cpc = "idle" /\ m_loop

\* C9 as stated: every Render() issued before shutdown is followed by the start
\* of a pull attempt.
C9_NotifyLeadsToPull ==
    (frameReady /\ m_loop) ~> (~frameReady \/ ~m_loop)

\* C9 as amended: the same, provided resize requests stop being stored.
C9_NotifyLeadsToPullOnceResizesStop ==
    (<>[](cpc # "store")) => C9_NotifyLeadsToPull

\* C9's case: no resize was ever requested, Render() has signalled the event,
\* and the worker has begun a pull attempt since
C9_PullAfterNotify ==
    lastReq = None /\ m_loop /\ m_evt = "set" /\ ~frameReady /\ wpc = "pull"

\* C10 as stated: after every present the worker blocks on the event.
C10_WaitAfterEveryPresent ==
    [][ (wpc = "present" /\ wpc' # wpc) => wpc' = "wait" ]_vars

\* C10 as amended: the worker enters the wait exactly when Map or the pull has
\* failed; after SetupRtv or Present it goes on without waiting; and a wait
\* that returns restarts the iteration.
C10_WaitOnlyAfterFailedPull ==
    [][ /\ (wpc' = "wait" /\ wpc # "wait") => (wpc \in {"map", "unmap"} /\ hr' = E_FAIL)
        /\ (wpc \in {"map", "unmap"} /\ wpc' # wpc /\ hr' = E_FAIL) => wpc' = "wait"
        /\ (wpc \in {"rtv", "present", "countT", "countR", "countW"} /\ wpc' # wpc) =>
               wpc' \in {"draw", "test", "countT", "countR", "countW"}
        /\ (wpc = "wait" /\ wpc' # wpc) => wpc' = "test"
      ]_vars

\* C10's case: the worker is back at the loop test straight from an iteration
\* that presented a frame
C10_LoopsAfterPresent ==
    wpc = "test" /\ hr = S_OK /\ m_totalFrame > 0 /\ m_loop

\* C11: a failed Map or a failed pull is absorbed.  The worker draws and
\* presents only after a successful pull; the failing step takes it to the wait
\* with the frame counters, the loop flag, the thread and the device as they
\* were; nothing is counted while it waits; and a wait that returns takes it
\* through the loop test and the register check to Map again.
C11_PullFailureAbsorbed ==
    /\ [](wpc \in {"rtv", "draw", "present"} => hr = S_OK)
    /\ [][ /\ (wpc \in {"map", "unmap"} /\ wpc' # wpc /\ hr' = E_FAIL) =>
                  /\ wpc' = "wait"
                  /\ m_totalFrame' = m_totalFrame /\ m_nFrame' = m_nFrame
                  /\ m_loop' = m_loop /\ m_thrd' = m_thrd /\ device' = device
           /\ wpc = "wait" => (m_totalFrame' = m_totalFrame /\ m_nFrame' = m_nFrame)
           /\ (wpc = "wait" /\ wpc' # wpc) => wpc' = "test"
           /\ (wpc = "test" /\ wpc' # wpc /\ m_loop) => wpc' = "load"
           /\ (wpc = "load" /\ wpc' # wpc /\ ~Pending(m_resize)) => wpc' = "map"
         ]_vars

\* C11's case: Map or the pull has failed, the texture is
\* not mapped and the worker is blocked on the unsignalled event
C11_BlockedAfterFailedPull ==
    wpc = "wait" /\ hr = E_FAIL /\ ~mapped /\ m_evt = "unset" /\ m_loop /\ ~frameReady

\* C12: a failed Present, or a failed SetupRtv, ends the iteration at the loop
\* test with the loop flag and both frame counters as they were, and the loop
\* goes on to its next iteration; the counters are incremented only on the way
\* from a Present that succeeded.
C12_PresentFailureNotCounted ==
    [][ /\ (wpc = "present" /\ wpc' # wpc /\ hr' = E_FAIL) =>
               /\ wpc' = "test" /\ m_loop' = m_loop
               /\ m_totalFrame' = m_totalFrame /\ m_nFrame' = m_nFrame
        /\ (wpc = "rtv" /\ wpc' # wpc /\ wpc' # "draw") =>
               /\ wpc' = "test" /\ m_loop' = m_loop
               /\ m_totalFrame' = m_totalFrame /\ m_nFrame' = m_nFrame
        /\ (wpc' = "countT" /\ wpc # wpc') => (wpc = "present" /\ hr' = S_OK)
        /\ m_totalFrame' > m_totalFrame => wpc = "countT"
        /\ m_nFrame' > m_nFrame => wpc = "countW"
        /\ (wpc = "test" /\ wpc' # wpc /\ m_loop) => (wpc' = "load" /\ m_thrd' = "running")
      ]_vars

\* C12's case: Present has failed and the worker is back at the loop test, the
\* loop flag still set and no frame counted
C12_AtLoopTestAfterFailedPresent ==
    wpc = "test" /\ hr = E_FAIL /\ m_loop /\ m_totalFrame = 0 /\ m_nFrame = 0

\* C13: a failed swapchain resize is fatal: the worker does not go on to present
\* frames after it.  The back buffers have the recorded window size unless the
\* latest Resize(w, h) failed, so whenever the worker is about to present they do.
C13_NoPresentAfterFailedResize ==
    wpc = "present" => bufferSize = Applied

\* C14: Init() returns false if any of its sub-steps has failed, and then
\* neither the event nor the worker thread has been created.
C14_InitFailsWhenAStepFails ==
    (initRet # "none" /\ failedStep # "none") =>
        (initRet = "false" /\ m_evt = "null" /\ m_thrd = "null" /\ wpc = "none")

\* C15: when Init() has returned false the owner holds no renderer, no
\* Resize() has reached the failed renderer, and the camera has not been started.
C15_NoSessionAfterFailedInit ==
    initRet = "false" => (m_render = "null" /\ lastReq = None /\ camera = "stopped")

\* the true time between the call that last set m_nTick (or the constructor)
\* and the latest call
Elapsed == call[1] - winStart

\* the control thread leaves GetFrameRate
Returns == cpc \in {"gfr", "gfrReset"} /\ cpc' = "idle"

\* C16: of two GetFrameRate calls made within 500 ms of each other, at most
\* one returns a value.
C16_OneSampleIn500ms ==
    [][ (Returns /\ lastCall # None /\ call[1] - lastCall[1] <= RateWindow) =>
            ~(sample'[1] = "true" /\ lastCall[2] = "true")
      ]_vars

\* C16's case: a call returned a value and the next call, made exactly 500 ms
\* later, has returned nothing
C16_SecondCallReturnedNothing ==
    /\ cpc = "idle" /\ lastCall # None
    /\ call[1] - lastCall[1] = RateWindow
    /\ lastCall[2] = "true" /\ sample[1] = "false"

\* C17 as stated: GetFrameRate returns nothing when less than 500 ms have
\* passed since the last successful sample, and goes on to return a sample
\* when 500 ms or more have passed.
C17_SampleFrom500ms ==
    [][ (cpc = "gfr" /\ cpc' # cpc) =>
            IF Elapsed < RateWindow
            THEN cpc' = "idle" /\ sample'[1] = "false"
            ELSE cpc' = "gfrFrame" /\ sample'[1] = "running"
      ]_vars

\* C17 as amended: GetFrameRate returns nothing when 500 ms or less have
\* passed, and goes on to return a sample when more than 500 ms have passed.
C17_SampleAfter500ms ==
    [][ /\ (cpc = "gfr" /\ cpc' # cpc) =>
               IF Elapsed <= RateWindow
               THEN cpc' = "idle" /\ sample'[1] = "false"
               ELSE cpc' = "gfrFrame" /\ sample'[1] = "running"
        /\ (cpc \in {"gfrFrame", "gfrTotal", "gfrReset"} /\ cpc' # cpc) =>
               /\ cpc' \in {"gfrTotal", "gfrReset", "idle"}
               /\ sample'[1] = IF cpc' = "idle" THEN "true" ELSE "running"
      ]_vars

\* C17's case: a call made exactly 500 ms after the last successful sample has
\* returned nothing
C17_NothingAt500ms ==
    cpc = "idle" /\ call # None /\ Elapsed = RateWindow /\ sample[1] = "false"

\* C18: a call that returns a value reports the elapsed milliseconds, the
\* number of frames presented since the previous successful sample and the
\* lifetime total, and leaves the window count 0 and m_nTick at its own tick.
C18_SampleReportsWindow ==
    [][ /\ (cpc = "gfr" /\ cpc' = "gfrFrame") => sample'[3] = U32(Elapsed)
        /\ (cpc = "gfrFrame" /\ cpc' # cpc) => sample'[2] = sinceSample
        /\ (cpc = "gfrTotal" /\ cpc' # cpc) =>
               (sample'[4] = m_totalFrame /\ m_nTick' = call[2])
        /\ (cpc = "gfrReset" /\ cpc' # cpc) =>
               /\ sample' = <<"true", sample[2], sample[3], sample[4]>>
               /\ m_nFrame' = 0 /\ m_nTick = call[2]
      ]_vars

\* the viewport is centred in the window
Centred ==
    /\ viewport[1] = CDiv(m_windowWidth - viewport[3], 2)
    /\ viewport[2] = CDiv(m_windowHeight - viewport[4], 2)

\* the viewport has the image's aspect ratio, to within the rounding of its
\* width and height to whole pixels: it is the rectangle of that ratio with up
\* to one pixel taken off each side, vpW * Ih and vpH * Iw differing by no more
\* than the image side they multiply
AspectKept ==
    /\ viewport[3] * image[2] - viewport[4] * image[1] <= image[1]
    /\ viewport[4] * image[1] - viewport[3] * image[2] <= image[2]

\* C19: for every image size and window size with all dimensions >= 1, the
\* viewport Resize(Ww, Wh) computes keeps the image's aspect ratio within the
\* rounding to whole pixels, and is centred in the window.
C19_ViewportKeepsAspectAndCentre ==
    viewport # None => (AspectKept /\ Centred)

\* C19's case: a window wider than the image's shape, with the viewport
\* pillarboxed: full height, narrower than the window and off the left edge
C19_Pillarboxed ==
    /\ image = <<1280, 960>> /\ <<m_windowWidth, m_windowHeight>> = <<1920, 1080>>
    /\ viewport = <<240, 0, 1440, 1080>>

\* the viewport lies inside the window whose size is recorded
Inside ==
    /\ viewport[1] >= 0 /\ viewport[2] >= 0
    /\ viewport[1] + viewport[3] <= m_windowWidth
    /\ viewport[2] + viewport[4] <= m_windowHeight

\* C20: whenever no Resize(w, h) is in progress the viewport lies fully inside
\* the current window and is the one computed for the recorded window size.
C20_ViewportInsideWindow ==
    ~Applying => (Inside /\ viewport = Viewport(m_windowWidth, m_windowHeight))

\* the viewport of the same formulas in exact arithmetic, its width and height
\* cut to whole pixels: the side that limits the scale fills the window, and
\* the other side is the image's, scaled by the same ratio
RefViewport(iw, ih, w, h) ==
    LET vpW == IF w * ih <= h * iw THEN w ELSE (iw * h) \div ih
        vpH == IF w * ih <= h * iw THEN (ih * w) \div iw ELSE h
    IN  << CDiv(w - vpW, 2), CDiv(h - vpH, 2), vpW, vpH >>

C22_ScaleOneOnlyAt16 ==
    shaderScale # None =>
        IF m_bitdepth <= 8 \/ m_bitdepth = 16
        THEN shaderScale = << 1, 0 >>
        ELSE /\ shaderScale # << 1, 0 >>
             /\ shaderScale[1] = FullScale \div (2^m_bitdepth - 1)

\* C22 as amended: the scale is 1 when the bit depth is at most 8 or at least
\* 16; otherwise it is 65535 / (2^b - 1) written with 8 decimal places (its
\* whole part and its first four decimals are those of the quotient), which is
\* 64.06158358 for 10 bits and 16.00366300 for 12 bits.
C22_ScaleOneFrom16 ==
    shaderScale # None =>
        IF m_bitdepth <= 8 \/ m_bitdepth >= 16
        THEN shaderScale = << 1, 0 >>
        ELSE LET d == 2^m_bitdepth - 1
             IN  /\ shaderScale[1] = FullScale \div d
                 /\ shaderScale[2] \div DigitRun = ((FullScale % d) * DigitRun) \div d
                 /\ m_bitdepth = 10 => shaderScale = << 64, 6158358 >>
                 /\ m_bitdepth = 12 => shaderScale = << 16, 366300 >>

\* C22's case: a bit depth of 17, for which the shader has been compiled with
\* a scale of 1
C22_ScaleOneAt17 ==
    m_bitdepth = 17 /\ shaderScale = << 1, 0 >> /\ initRet = "true"

\* C23: the texture format is the one derived from (mono, bit depth): 1
\* channel for mono and 4 for colour, 8 bits per channel up to a bit depth of
\* 8 and 16 above; once the texture exists its format, the bit depth and the
\* mono mode never change; and every pull asks for 8, 16, 32 or 64 bits per
\* pixel, the bits per pixel of that format.
C23_PullMatchesTextureFormat ==
    /\ [](texFormat # None =>
              texFormat = << IF m_bMono THEN 1 ELSE 4, IF m_bitdepth <= 8 THEN 8 ELSE 16 >>)
    /\ [][ /\ texFormat # None =>
                  (texFormat' = texFormat /\ m_bitdepth' = m_bitdepth /\ m_bMono' = m_bMono)
           /\ (wpc = "pull" /\ wpc' # wpc) =>
                  /\ texFormat # None
                  /\ pullBits' = texFormat[1] * texFormat[2]
                  /\ pullBits' \in {8, 16, 32, 64}
         ]_vars

\* C23's case: a mono camera of more than 8 bits, whose texture has one channel
\* of 16 bits and whose worker has pulled a frame of 16 bits per pixel
C23_PulledMono16 ==
    wpc = "unmap" /\ hr = S_OK /\ m_bMono /\ texFormat = << 1, 16 >> /\ pullBits = 16

\* a step of the render worker: every step of Loop moves its position
WorkerStep == wpc' # wpc

\* C24: the resize register apart, every variable of the renderer has one
\* writer thread after Init: the window size, the frame counters and the GPU
\* state are written by steps of the worker only, the sample tick and the loop
\* flag by steps of the control thread only.
C24_OnlyRegisterShared ==
    [][ /\ ( \/ m_windowWidth' # m_windowWidth \/ m_windowHeight' # m_windowHeight
             \/ m_totalFrame' # m_totalFrame \/ m_nFrame' # m_nFrame
             \/ bufferSize' # bufferSize \/ viewport' # viewport
             \/ mapped' # mapped ) => WorkerStep
        /\ (m_nTick' # m_nTick \/ m_loop' # m_loop) => ~WorkerStep
      ]_vars

\* C25: while the worker thread exists and has not been joined, a step of the
\* control thread (Render(), Resize(), GetFrameRate(), the destructor up to
\* the join) uses none of the GPU objects: the device objects, the back
\* buffers, the viewport, the mapping of the texture and the target of the
\* pull change in steps of the worker only.
C25_GpuConfinedToWorker ==
    [][ (m_thrd = "running" /\ ~WorkerStep) =>
            UNCHANGED <<device, bufferSize, viewport, mapped, texFormat, pullBits>>
      ]_vars

\* C25's case: Resize(), Render() and GetFrameRate() have all run on the
\* control thread, which is inside GetFrameRate while the worker, not yet
\* joined, has the texture mapped
C25_HandlersRunWhileWorkerDraws ==
    /\ m_thrd = "running" /\ mapped /\ wpc = "unmap"
    /\ lastReq # None /\ frameReady /\ cpc = "gfrTotal"

\* C26: a Present that succeeds is followed by the counting of the frame, which
\* leaves the lifetime total and the window counter each one above what it was;
\* the lifetime total never decreases, and only steps of the worker change it.
C26_PresentCountsOne ==
    [][ /\ (wpc = "present" /\ wpc' # wpc /\ hr' = S_OK) => wpc' = "countT"
        /\ (wpc = "countT" /\ wpc' # wpc) => m_totalFrame' = m_totalFrame + 1
        /\ (wpc = "countW" /\ wpc' # wpc) => m_nFrame' = m_nFrame + 1
        /\ m_totalFrame' >= m_totalFrame
        /\ m_totalFrame' # m_totalFrame => WorkerStep
      ]_vars

\* C27: no request is applied twice.  The worker is inside Resize(w, h) only
\* in an iteration whose read of the register found the flag set and took a
\* request stored since its previous read; its store(0) leaves the flag clear;
\* and the flag becomes set again only by a store of Resize().
C27_NoRequestAppliedTwice ==
    /\ [](Applying => (Pending(val) /\ nTaken >= 1))
    /\ [][ /\ (wpc' = "resizeW" /\ wpc # wpc') => (wpc = "clear" /\ ~Pending(m_resize'))
           /\ (Pending(m_resize') /\ ~Pending(m_resize)) => cpc = "store"
           /\ (wpc' = "clear" /\ wpc # wpc') => (wpc = "load" /\ Pending(m_resize))
         ]_vars

\* C27's case: a request has been applied, and the next iteration has read the
\* register with the flag clear and gone on to map the texture
C27_AppliedOnceThenPulls ==
    /\ wpc = "map" /\ lastReq # None /\ Applied = lastReq /\ bufferSize = lastReq
    /\ ~Pending(m_resize) /\ cpc = "idle" /\ client = lastReq

\* C28: the camera is closed only when no worker that captured its handle is
\* running: whenever the camera is closed, the worker has returned from Loop
\* and been joined, or was never started.
C28_CameraClosedAfterJoin ==
    camera = "closed" => (wpc \in {"none", "done"} /\ m_thrd # "running")

\* C29: the flag is tested at the start of every iteration.  The register is
\* read only on the way from a loop test that found the flag set, and the
\* resize, the map and all that follows only on the way from that read; a wait
\* that returns leads to the loop test and nowhere else; a loop test that
\* finds the flag clear ends the loop; and once the loop has ended the worker
\* changes nothing: no window size, buffer, viewport, mapping, pull or counter.
C29_FlagTestedEveryIteration ==
    [][ /\ (wpc = "test" /\ wpc' # wpc) => wpc' = IF m_loop THEN "load" ELSE "done"
        /\ (wpc' = "load" /\ wpc # wpc') => (wpc = "test" /\ m_loop)
        /\ (wpc' \in {"clear", "map"} /\ wpc # wpc') => wpc = "load"
        /\ (wpc = "wait" /\ wpc' # wpc) => wpc' = "test"
        /\ wpc = "done" =>
               /\ wpc' = "done"
               /\ UNCHANGED <<m_windowWidth, m_windowHeight, bufferSize, viewport,
                              mapped, pullBits, m_totalFrame, m_nFrame, val, hr>>
      ]_vars

\* C29's case: the worker was parked on the event when the destructor signalled
\* it (the destructor is at the join and its signal has been taken), and it
\* has left the loop with a resize request still pending and a frame waiting
C29_WokenByShutdownAndExited ==
    /\ wpc = "done" /\ cpc = "dtorJoin" /\ m_evt = "unset"
    /\ Pending(m_resize) /\ frameReady /\ ~mapped

\* C30: no presented frame is lost or counted twice.  Whenever the control
\* thread is outside GetFrameRate and the worker is not between the two
\* increments of an iteration, the frame counts GetFrameRate has returned and
\* the window counter add up to the lifetime total.
C30_NoFrameLost ==
    (cpc = "idle" /\ wpc \notin {"countR", "countW"}) =>
        reported + m_nFrame = m_totalFrame

\* C31: the recorded window size is the size the surface has.  Whenever no
\* Resize(w, h) is in progress, the back buffers have the recorded size, so
\* that Resize() compares the window against the size actually applied.
C31_RecordedSizeIsSurfaceSize ==
    ~Applying => bufferSize = Applied

\* C32: the register round-trips.  For widths and heights in 0..32767 the
\* value Resize() stores has the pending flag set, also for (0, 0), and
\* decodes to the size stored; the register holds either 0 or the latest
\* request; and the size the worker decodes and records is the size encoded.
C32_RegisterRoundTrips ==
    /\ [](m_resize # NoRequest => (Pending(m_resize) /\ Requested(m_resize) = lastReq))
    /\ [][ /\ (cpc = "store" /\ cpc' # cpc) =>
                  /\ client[1] \in 0..DimMask /\ client[2] \in 0..DimMask
                  /\ m_resize' # NoRequest
                  /\ Pending(m_resize') /\ Requested(m_resize') = client
           /\ (wpc = "load" /\ wpc' # wpc /\ m_resize # NoRequest) =>
                  (wpc' = "clear" /\ Requested(val') = lastReq)
           /\ (wpc = "resizeH" /\ wpc' # wpc) => Applied' = Requested(val)
         ]_vars

\* C32's case: a request for a window of 0 x 0 has been stored, read as
\* pending and applied
C32_ZeroSizeApplied ==
    /\ wpc = "test" /\ nTaken > 0 /\ lastReq = <<0, 0>> /\ Applied = <<0, 0>>
    /\ ~Pending(m_resize)

\* C33: a GetFrameRate call that returns nothing changes nothing.  The step
\* by which the call returns false leaves m_nTick, m_nFrame, m_totalFrame and
\* the three output variables of the caller as they were.
C33_NothingReturnedNothingChanged ==
    [][ (cpc = "gfr" /\ cpc' = "idle") =>
            /\ sample'[1] = "false"
            /\ sample'[2] = sample[2] /\ sample'[3] = sample[3] /\ sample'[4] = sample[4]
            /\ UNCHANGED <<m_nTick, m_nFrame, m_totalFrame>>
      ]_vars

\* C33's case: a call made while frames were counted has returned nothing,
\* and the caller still holds what the camera reported
C33_ReturnedNothingWithFramesCounted ==
    /\ cpc = "idle" /\ call # None /\ sample[1] = "false"
    /\ m_nFrame > 0 /\ m_totalFrame > 0
    /\ \E r \in CamRates : sample = <<"false", r[1], r[2], 0>>

\* (p + q) mod 2^32, for two unsigned values
Plus32(p, q) ==
    LET low == p[2] + q[2]
    IN  << (p[1] + q[1] + (low \div Half)) % Half, low % Half >>

\* last-sample ticks and elapsed times over the 32-bit range: 0, the two sides
\* of the 500 ms window, the middle of the range and its end
TickSamples ==
    { <<0, 0>>, <<0, 500>>, <<0, 501>>, <<1, 0>>, <<32767, 65535>>, <<32768, 0>>,
      <<65535, 65035>>, <<65535, 65535>> }

\* C34: the elapsed time survives the wrap of the 32-bit tick.  The difference
\* tick - m_nTick taken modulo 2^32 is the time that has really passed since
\* the last sample, for every last-sample tick and elapsed time below 2^32 ms;
\* a call reports exactly when more than 500 ms have really passed, and the
\* interval it reports is the real one.
C34_ElapsedAcrossWrap ==
    /\ \A t \in TickSamples : \A e \in TickSamples : Sub32(Plus32(t, e), t) = e
    /\ [](cpc = "gfr" => Sub32(call[2], m_nTick) = U32(Elapsed))
    /\ [][ (cpc = "gfr" /\ cpc' # cpc) =>
               /\ (cpc' = "gfrFrame") <=> (Elapsed > RateWindow)
               /\ (cpc' = "gfrFrame") => sample'[3] = U32(Elapsed)
         ]_vars

\* C34's case: the window began before the tick wrapped and the call that
\* reports it is made after the wrap
C34_ReportedAfterWrap ==
    /\ cpc = "gfrFrame"
    /\ m_nTick[1] = 65535 /\ call[2][1] = 0
    /\ sample[3] = U32(Elapsed) /\ Elapsed > RateWindow

\* C35: Map and Unmap are balanced.  The texture is mapped only between a
\* Map that succeeded and the Unmap that follows the pull, never while the
\* worker draws, presents, resizes, waits or leaves the loop; it becomes mapped
\* only by a successful Map and unmapped only by the one Unmap, which is
\* reached whether the pull succeeded or failed; a failed Map goes to the wait
\* without an Unmap.
C35_MapUnmapBalanced ==
    /\ [](mapped <=> wpc \in {"pull", "unmap"})
    /\ [][ /\ (mapped' # mapped) =>
                  \/ wpc = "map" /\ hr' = S_OK /\ mapped' /\ wpc' = "pull"
                  \/ wpc = "unmap" /\ mapped /\ ~mapped' /\ wpc' \in {"wait", "rtv"}
           /\ (wpc = "map" /\ wpc' # wpc /\ hr' = E_FAIL) => (~mapped' /\ wpc' = "wait")
           /\ (wpc = "pull" /\ wpc' # wpc) => (mapped' /\ wpc' = "unmap")
           /\ (wpc' = "unmap" /\ wpc # wpc') => (wpc = "pull" /\ mapped)
         ]_vars

\* C35's case: a frame was pulled into the mapped texture and the texture
\* was unmapped before the draw
C35_UnmappedBeforeDraw ==
    wpc = "draw" /\ ~mapped /\ hr = S_OK /\ pullBits # 0

\* C36: at most one worker thread at a time.  The threads started and not
\* joined are never more than one, and are the thread of the renderer that is
\* held; a worker is started only by StartDevice, when no renderer is held and
\* the worker of the renderer held before, if it had one, has left Loop and
\* been joined.
C36_OneWorkerAtATime ==
    /\ [](nThreads <= 1)
    /\ [](nThreads = IF m_thrd = "running" THEN 1 ELSE 0)
    /\ [][ (m_thrd' = "running" /\ (m_thrd # "running" \/ nThreads' # nThreads)) =>
               /\ cpc = "start" /\ nThreads = 0 /\ nThreads' = 1
               /\ m_render = "null"
               /\ m_thrd \in {"null", "joined"}
               /\ wpc \in {"none", "done"}
         ]_vars

\* C36's case: the resolution was changed while a worker was running, and
\* the worker of the new renderer draws
C36_NewWorkerAfterResolutionChange ==
    /\ cpc = "idle" /\ dtorRet = "size" /\ image = <<640, 480>>
    /\ m_render = "held" /\ m_thrd = "running" /\ nThreads = 1 /\ wpc = "draw"

\* the camera was lost and opened again, and the worker of the new renderer draws
C36_NewWorkerAfterReopen ==
    /\ cpc = "idle" /\ dtorRet = "init" /\ camera = "started"
    /\ m_render = "held" /\ m_thrd = "running" /\ nThreads = 1 /\ wpc = "draw"

====
